---- MODULE Spec2Model ----
(***************************************************************************)
(* Model of confertus' DynamicBitVector: an AVL tree of Nodes over an      *)
(* arena (`nodes`, `leafs`) whose leaves are packed bit containers.        *)
(*                                                                         *)
(* The functions of src/src/dynamic_vector/mod.rs mutate `self`; here each *)
(* of them is an operator from a tree record s = [root, nodes, leafs, st,  *)
(* ret] to the tree record after the call.  st is "ok" while the call runs *)
(* normally, "abort" once it has panicked (unwrap on None, unreachable!,   *)
(* index out of range, overflow in a debug build, failed assertion) and    *)
(* "hang" when it recurses without end; ret carries the returned value.    *)
(*                                                                         *)
(* LeafValue is u64 in the source.  The model keeps every formula of the   *)
(* source in terms of LeafValue::BITS and instantiates BITS with a small   *)
(* container width so that full leaves, splits, rotations and merges are   *)
(* reachable by exhaustive search.                                         *)
(***************************************************************************)
EXTENDS Integers, Sequences, FiniteSets, TLC

VARIABLES
    root,    \* DynamicBitVector.root
    nodes,   \* DynamicBitVector.nodes, Rust index i is nodes[i+1]
    leafs,   \* DynamicBitVector.leafs, Rust index i is leafs[i+1]
    status,  \* "ok", or how the last call ended the process: "abort" / "hang"
    ret,     \* what the last completed call returned: "" or the Err message
    debug,   \* TRUE: build with debug_assertions and overflow checks
    bmi,     \* TRUE: the CPU reports bmi1 and bmi2
    ref,     \* plain reference sequence updated by the same operations
    calls    \* number of further calls the run may make

vars == <<root, nodes, leafs, status, ret, debug, bmi, ref, calls>>

\* LeafValue::BITS (leaf/mod.rs:17, `LeafValue = u64`), instantiated small.
BITS == 4
\* leaf/mod.rs:19
HALF == BITS \div 2
\* LeafValue::MAX
MAXV == 2^BITS - 1

\* longest bit vector the model builds
MaxLen == 9
\* bound: calls made in one run
MaxOps == 6
\* bound: calls made in one run of the balance specification
BalanceOps == 10
\* Calls per run in the runs that mix flip with insert and delete.
FlipOps == 8

\* Option::None of `parent`, `left`, `right` (node.rs:15-19); any other
\* value v of such a field stands for Some(v).
None == 99

-----------------------------------------------------------------------------
(* Machine words                                                           *)

BitOf(v, i) == (v \div (2^i)) % 2

\* `a & b`
BitAnd(a, b) ==
    LET f[i \in 0..BITS] ==
            IF i = BITS THEN 0 ELSE BitOf(a, i) * BitOf(b, i) * (2^i) + f[i+1]
    IN f[0]

\* `a | b`
BitOr(a, b) == a + b - BitAnd(a, b)

\* `a ^ b`
BitXor(a, b) == a + b - 2 * BitAnd(a, b)

\* `!a`
BitNot(a) == MAXV - a

\* count_ones()
count_ones(v) ==
    LET f[i \in 0..BITS] == IF i = BITS THEN 0 ELSE BitOf(v, i) + f[i+1]
    IN f[0]

\* A shift by k overflows when k is not in 0..BITS-1: a build with overflow
\* checks panics, a build without them masks the amount to k mod BITS.
ShiftOverflows(k) == k < 0 \/ k >= BITS
\* `v << k` without overflow checks
Shl(v, k) == (v * (2^(k % BITS))) % (2^BITS)
\* `v >> k` without overflow checks
Shr(v, k) == v \div (2^(k % BITS))
\* LeafValue::rotate_right(k), 0 <= k < BITS
word_rotate_right(v, k) == BitOr(Shr(v, k), Shl(v, (BITS - k) % BITS))

\* bool as LeafValue
AsBit(b) == IF b THEN 1 ELSE 0

\* Unsigned comparison of usize values.  A usize that has wrapped below zero
\* is kept as the negative integer it is congruent to and is larger than
\* every value that has not wrapped.
ULe(a, b) == IF (a < 0) = (b < 0) THEN a <= b ELSE b < 0

-----------------------------------------------------------------------------
(* Leaf (leaf/mod.rs, leaf/trait_impls.rs).  A leaf operation yields       *)
(* [l |-> the leaf afterwards, err |-> "" or the Err it returns,           *)
(*  p |-> whether it panics, v |-> the value it returns].                  *)

Leaf_new(parent) == [parent |-> parent, value |-> 0, nums |-> 0]
Leaf_create(parent, value, n) == [parent |-> parent, value |-> value, nums |-> n]

LRes(l, err, p, v) == [l |-> l, err |-> err, p |-> p, v |-> v]

\* Leaf::push_unchecked
push_unchecked(l, bit) ==
    LRes([l EXCEPT !.value = BitOr(l.value, Shl(AsBit(bit), l.nums)),
                   !.nums = l.nums + 1],
         "", debug /\ ShiftOverflows(l.nums), 0)

\* Leaf::push
Leaf_push(l, bit) ==
    IF l.nums < BITS THEN push_unchecked(l, bit)
    ELSE LRes(l, "Full", FALSE, 0)

\* Leaf::insert_unchecked
insert_unchecked(l, index, bit) ==
    LET lmask == Shl(MAXV, BITS - index)
        rmask == Shr(MAXV, index)
        value == BitOr(BitOr(BitAnd(l.value, lmask), Shl(AsBit(bit), index)),
                       Shr(BitAnd(l.value, rmask), 1))
    IN LRes([l EXCEPT !.value = value, !.nums = l.nums + 1], "",
            debug /\ (ShiftOverflows(BITS - index) \/ ShiftOverflows(index)), 0)

\* <Leaf as DynBitVec>::insert, the insert whose error type (&'static str)
\* the `?` of DynamicBitVector::insert_leaf propagates
Leaf_insert(l, index, bit) ==
    IF l.nums < BITS /\ index <= l.nums THEN insert_unchecked(l, index, bit)
    ELSE IF index > l.nums THEN LRes(l, "OutOfBounds", FALSE, 0)
    ELSE LRes(l, "Full", FALSE, 0)

\* Leaf::delete_unchecked
delete_unchecked(l, index) ==
    LET lmask == Shl(MAXV, BITS - index)
        rmask == Shr(MAXV, index)
        value == BitOr(Shr(BitAnd(l.value, lmask), 1), BitAnd(l.value, rmask))
    IN LRes([l EXCEPT !.value = value, !.nums = (l.nums - 1) % 256], "",
            debug /\ (ShiftOverflows(BITS - index) \/ ShiftOverflows(index)
                      \/ l.nums = 0), 0)

\* <Leaf as DynBitVec>::delete
Leaf_delete(l, index) ==
    IF l.nums # 0 /\ index < l.nums THEN delete_unchecked(l, index)
    ELSE IF l.nums = 0 THEN LRes(l, "Empty", FALSE, 0)
    ELSE LRes(l, "OutOfBounds", FALSE, 0)

\* Leaf::flip
Leaf_flip(l, index) ==
    LRes([l EXCEPT !.value = BitXor(l.value, Shl(1, index))], "",
         debug /\ ShiftOverflows(index), 0)

\* Leaf::access
Leaf_access(l, index) ==
    LRes(l, "", debug /\ ShiftOverflows(index), BitOf(Shr(l.value, index), 0) = 1)

\* Leaf::ones
Leaf_ones(l) == count_ones(l.value)

\* Leaf::rank
Leaf_rank(l, bit, index) ==
    LRes(l, "", debug /\ ShiftOverflows(index),
         IF bit THEN count_ones(Shr(l.value, index))
         ELSE count_ones(Shr(BitNot(l.value), index)))

\* Leaf::select_pdep: _tzcnt_u64(_pdep_u64(1 << n, array))
select_pdep(l, bit, n) ==
    LET array == IF bit THEN l.value ELSE BitNot(l.value)
        k == n % BITS
        \* positions of the set bits of `array`, lowest first
        hits == {i \in 0..(BITS-1) : BitOf(array, i) = 1}
        below(i) == Cardinality({j \in hits : j < i})
        at == {i \in hits : below(i) = k}
    IN LRes(l, "", debug /\ ShiftOverflows(n),
            IF at = {} THEN BITS ELSE CHOOSE i \in at : TRUE)

\* Leaf::select, the scan used when bmi1/bmi2 are not detected: it walks the
\* container from the highest position down and returns its match counter.
select_scan(l, bit, n) ==
    LET matches == IF bit THEN count_ones(l.value)
                   ELSE BITS - count_ones(l.value)
    IN IF n >= 0 /\ n < matches THEN LRes(l, "", FALSE, n)
       ELSE LRes(l, "", TRUE, 0)

\* Leaf::select
Leaf_select(l, bit, n) ==
    IF bmi THEN select_pdep(l, bit, n) ELSE select_scan(l, bit, n)

\* UnsafeBitVec::select_internal for u64; `feat` is the build's
\* target_feature = "bmi1" + "bmi2".  With it: _tzcnt_u64(_pdep_u64(1 << n, x)),
\* which is the width of the word when x has no n-th set bit.  Without it: the
\* scan from shift 0 upwards, which panics when the match is not found.
select_internal(v, bit, n, feat) ==
    LET array == IF bit THEN v ELSE BitNot(v)
        hits == {i \in 0..(BITS-1) : BitOf(array, i) = 1}
        at(k) == {i \in hits : Cardinality({j \in hits : j < i}) = k}
    IN IF feat
       THEN LRes(v, "", debug /\ ShiftOverflows(n),
                 IF at(n % BITS) = {} THEN BITS ELSE CHOOSE i \in at(n % BITS) : TRUE)
       ELSE IF at(n) = {} THEN LRes(v, "", TRUE, 0)
            ELSE LRes(v, "", FALSE, CHOOSE i \in at(n) : TRUE)

\* Leaf::split_to_right
split_to_right(l) ==
    LET r == Shl(word_rotate_right(l.value, HALF), HALF)
    IN LRes([l EXCEPT !.value = Shr(Shl(l.value, HALF), HALF), !.nums = HALF],
            "", FALSE, Shr(r, HALF))

\* Leaf::split_to_left
split_to_left(l) ==
    LRes([l EXCEPT !.value = Shr(l.value, HALF), !.nums = (l.nums - HALF) % 256],
         "", debug /\ l.nums < HALF, Shr(Shl(l.value, HALF), HALF))

\* Leaf::extend_from
extend_from(l, other) ==
    LRes([l EXCEPT !.value = BitOr(l.value, Shl(other.value, other.nums)),
                   !.nums = (l.nums + other.nums) % 256],
         "", debug /\ (ShiftOverflows(other.nums) \/ l.nums + other.nums > 255), 0)

\* Leaf::prepend
prepend(l, other) ==
    LRes([l EXCEPT !.value = BitOr(Shl(l.value, other.nums), other.value),
                   !.nums = (l.nums + other.nums) % 256],
         "", debug /\ (ShiftOverflows(other.nums) \/ l.nums + other.nums > 255), 0)

\* Leaf::extend; side "R" is Right(values), side "L" is Left(values)
extend(l, side, values, n) ==
    IF side = "R" THEN extend_from(l, Leaf_create(0, values, n))
    ELSE prepend(l, Leaf_create(0, values, n))

-----------------------------------------------------------------------------
(* Node (node.rs) and the arena                                            *)

Node_new == [parent |-> None, left |-> None, right |-> None,
             nums |-> 0, ones |-> 0, rank |-> 0]

Abs(x) == IF x < 0 THEN -x ELSE x

Running(s) == s.st = "ok"
Panic(s) == [s EXCEPT !.st = "abort"]
Hang(s) == [s EXCEPT !.st = "hang"]
Ret(s, v) == IF Running(s) THEN [s EXCEPT !.ret = v] ELSE s

\* Index<usize>: nodes[index]; out of range panics
HasNode(s, n) == n >= 0 /\ n < Len(s.nodes)
NodeAt(s, n) == IF HasNode(s, n) THEN s.nodes[n + 1] ELSE Node_new
\* Index<isize>: leafs[|index|]; out of range panics
HasLeaf(s, l) == Abs(l) < Len(s.leafs)
LeafAt(s, l) == IF HasLeaf(s, l) THEN s.leafs[Abs(l) + 1] ELSE Leaf_new(0)

\* IndexMut<usize>, one field
SetN(s, n, f, v) ==
    IF ~Running(s) THEN s
    ELSE IF ~HasNode(s, n) THEN Panic(s)
    ELSE [s EXCEPT !.nodes[n + 1][f] = v]

\* IndexMut<isize>, the whole leaf
SetL(s, l, leaf) ==
    IF ~Running(s) THEN s
    ELSE IF ~HasLeaf(s, l) THEN Panic(s)
    ELSE [s EXCEPT !.leafs[Abs(l) + 1] = leaf]

\* a leaf operation applied in place: self[l].op(..)
OnLeaf(s, l, res) ==
    IF ~Running(s) THEN s
    ELSE IF ~HasLeaf(s, l) \/ res.p THEN Panic(s)
    ELSE [s EXCEPT !.leafs[Abs(l) + 1] = res.l, !.ret = res.v]

\* Node::replace_child_with on node p
replace_child_with(s, p, child, new_child) ==
    IF ~Running(s) THEN s
    ELSE IF ~HasNode(s, p) THEN Panic(s)
    ELSE IF NodeAt(s, p).left # None /\ NodeAt(s, p).left = child
         THEN SetN(s, p, "left", new_child)
    ELSE IF NodeAt(s, p).right # None /\ NodeAt(s, p).right = child
         THEN SetN(s, p, "right", new_child)
    ELSE Panic(s)

\* Either<usize, usize>; k = "P" when the lookup panics, "N" for Option::None
Side(k, v) == [k |-> k, v |-> v]

\* DynamicBitVector::get_leaf_side
get_leaf_side(s, child) ==
    IF ~HasLeaf(s, child) THEN Side("P", 0)
    ELSE LET parent == LeafAt(s, child).parent IN
         IF ~HasNode(s, parent) THEN Side("P", 0)
         ELSE IF NodeAt(s, parent).left # None /\ NodeAt(s, parent).left = child
              THEN Side("L", parent)
         ELSE IF NodeAt(s, parent).right # None /\ NodeAt(s, parent).right = child
              THEN Side("R", parent)
         ELSE Side("P", 0)

\* DynamicBitVector::get_node_side
get_node_side(s, child) ==
    IF ~HasNode(s, child) THEN Side("P", 0)
    ELSE LET parent == NodeAt(s, child).parent IN
         IF parent = None THEN Side("N", 0)
         ELSE IF ~HasNode(s, parent) THEN Side("P", 0)
         ELSE IF NodeAt(s, parent).left # None /\ NodeAt(s, parent).left = child
              THEN Side("L", parent)
         ELSE IF NodeAt(s, parent).right # None /\ NodeAt(s, parent).right = child
              THEN Side("R", parent)
         ELSE Side("N", 0)

-----------------------------------------------------------------------------
(* Rotations, rebalancing and retracing (dynamic_vector/mod.rs)            *)

\* a child whose parent field is left as it was, for comparison with SetParentOf
SetParentOf_kept(s, r, x) == s

\* set the parent of child r (a node for r >= 0, a leaf otherwise) to x
SetParentOf(s, r, x) ==
    IF r >= 0 THEN SetN(s, r, "parent", x)
    ELSE IF ~HasLeaf(s, r) THEN (IF Running(s) THEN Panic(s) ELSE s)
    ELSE SetL(s, r, [LeafAt(s, r) EXCEPT !.parent = x])

\* usize `a - b`: panics on underflow with overflow checks, wraps without
USubOverflows(a, b) == debug /\ a >= 0 /\ b >= 0 /\ a - b < 0

\* rotations that leave the tree as it was, for comparison with
\* rotate_left_new and rotate_right_new
rotate_left_idle(s, z, x) == s
rotate_right_idle(s, z, x) == s

\* DynamicBitVector::rotate_left_new
rotate_left_new(s, z, x) ==
    IF ~Running(s) THEN s
    ELSE IF ~HasNode(s, z) \/ ~HasNode(s, x) THEN Panic(s)
    ELSE
    LET \* 2
        relink(t) == IF NodeAt(t, z).parent # None
                     THEN replace_child_with(t, NodeAt(t, z).parent, x, z)
                     ELSE [t EXCEPT !.root = z]
        \* 4
        move(t) == SetN(t, x, "right", NodeAt(t, z).left)
        \* 5
        adopt(t) == IF ~Running(t) THEN t
                    ELSE IF NodeAt(t, x).right = None THEN Panic(t)
                    ELSE SetParentOf(t, NodeAt(t, x).right, x)
        \* 8
        sums(t) == SetN(SetN(t, z, "nums", NodeAt(t, z).nums + NodeAt(t, x).nums),
                        z, "ones", NodeAt(t, z).ones + NodeAt(t, x).ones)
    IN sums(SetN(SetN(SetN(
           adopt(move(SetN(relink(SetN(s, z, "parent", NodeAt(s, x).parent)),
                           x, "parent", z))),
           z, "left", x), z, "rank", 0), x, "rank", 0))

\* DynamicBitVector::rotate_left.  On entry the call adds <<"left", z, x, s>>
\* to `rots`, a field no operation reads.
rotate_left(s, z, x) ==
    IF ~Running(s) THEN s
    ELSE IF debug /\ (~HasNode(s, x) \/ NodeAt(s, x).rank # 2
                      \/ ~HasNode(s, z) \/ NodeAt(s, z).rank # 1)
         THEN Panic([s EXCEPT !.rots = Append(@, <<"left", z, x, s>>)])
    ELSE rotate_left_new([s EXCEPT !.rots = Append(@, <<"left", z, x, s>>)], z, x)

\* DynamicBitVector::rotate_right_new
rotate_right_new(s, z, x) ==
    IF ~Running(s) THEN s
    ELSE IF ~HasNode(s, z) \/ ~HasNode(s, x) THEN Panic(s)
    ELSE
    LET \* 2
        relink(t) == IF NodeAt(t, z).parent # None
                     THEN replace_child_with(t, NodeAt(t, z).parent, x, z)
                     ELSE [t EXCEPT !.root = z]
        \* 4
        move(t) == SetN(t, x, "left", NodeAt(t, z).right)
        \* 5
        adopt(t) == IF ~Running(t) THEN t
                    ELSE IF NodeAt(t, x).left = None THEN Panic(t)
                    ELSE SetParentOf(t, NodeAt(t, x).left, x)
        \* 8
        diffs(t) ==
            IF ~Running(t) THEN t
            ELSE IF USubOverflows(NodeAt(t, x).nums, NodeAt(t, z).nums)
                    \/ USubOverflows(NodeAt(t, x).ones, NodeAt(t, z).ones)
                 THEN Panic(t)
            ELSE SetN(SetN(t, x, "nums", NodeAt(t, x).nums - NodeAt(t, z).nums),
                      x, "ones", NodeAt(t, x).ones - NodeAt(t, z).ones)
    IN diffs(SetN(SetN(SetN(
           adopt(move(SetN(relink(SetN(s, z, "parent", NodeAt(s, x).parent)),
                           x, "parent", z))),
           z, "right", x), z, "rank", 0), x, "rank", 0))

\* DynamicBitVector::rotate_right, with the same note of <<"right", z, x, s>>
rotate_right(s, z, x) ==
    IF ~Running(s) THEN s
    ELSE IF debug /\ (~HasNode(s, x) \/ NodeAt(s, x).rank # -2
                      \/ ~HasNode(s, z) \/ NodeAt(s, z).rank # -1)
         THEN Panic([s EXCEPT !.rots = Append(@, <<"right", z, x, s>>)])
    ELSE rotate_right_new([s EXCEPT !.rots = Append(@, <<"right", z, x, s>>)], z, x)

\* DynamicBitVector::rebalance, the block `if parent.right == Some(node)`.
\* On entry of the "Right Left" branch the call notes
\* <<x, rank of x, z, inner child of z>> in `dbl`, a field no operation reads.
rebalance_right(s, node, parent) ==
    IF NodeAt(s, parent).right # None /\ NodeAt(s, parent).right = node THEN
        IF ~HasNode(s, node) THEN Panic(s)
        ELSE IF NodeAt(s, node).rank >= 0 THEN rotate_left(s, node, parent)
        ELSE
        LET noted == [s EXCEPT !.dbl = <<parent, NodeAt(s, parent).rank, node,
                                         NodeAt(s, node).left>>]
        IN IF NodeAt(s, node).left = None THEN Panic(noted)
           ELSE rotate_left(rotate_right(noted, NodeAt(s, node).left, node),
                            NodeAt(s, node).left, parent)
    ELSE s

\* DynamicBitVector::rebalance, the block `if parent.left == Some(node)`, with
\* the same note on entry of the "Left Right" branch
rebalance_left(s, node, parent) ==
    IF ~Running(s) THEN s
    ELSE IF ~HasNode(s, parent) THEN Panic(s)
    ELSE IF NodeAt(s, parent).left # None /\ NodeAt(s, parent).left = node THEN
        IF ~HasNode(s, node) THEN Panic(s)
        ELSE IF NodeAt(s, node).rank <= 0 THEN rotate_right(s, node, parent)
        ELSE
        LET noted == [s EXCEPT !.dbl = <<parent, NodeAt(s, parent).rank, node,
                                         NodeAt(s, node).right>>]
        IN IF NodeAt(s, node).right = None THEN Panic(noted)
           ELSE rotate_right(rotate_left(noted, NodeAt(s, node).right, node),
                             NodeAt(s, node).right, parent)
    ELSE s

\* DynamicBitVector::rebalance without its rotations
rebalance_skipped(s, node, parent) == s

\* DynamicBitVector::rebalance.  `unwrap() as usize` of a leaf id is an index
\* no arena holds: it stays negative here and panics where it is used.
rebalance(s, node, parent) ==
    IF ~Running(s) THEN s
    ELSE IF ~HasNode(s, parent) THEN Panic(s)
    ELSE rebalance_left(rebalance_right(s, node, parent), node, parent)

\* DynamicBitVector::rebalance_no_child, one `if let Some(c) = parent.<side>`
rebalance_child(s, side, parent) ==
    IF ~Running(s) THEN s
    ELSE IF ~HasNode(s, parent) THEN Panic(s)
    ELSE
    LET c == NodeAt(s, parent)[side] IN
    IF c # None /\ c >= 0 THEN
        IF ~HasNode(s, c) THEN Panic(s)
        ELSE IF Abs(NodeAt(s, c).rank) = 1 THEN rebalance(s, c, parent)
        ELSE s
    ELSE s

\* DynamicBitVector::rebalance_no_child: both `if let` run, then the
\* unreachable!() after them is reached on every path.
rebalance_no_child(s, parent) ==
    LET unreachable(t) == IF Running(t) THEN Panic(t) ELSE t
    IN unreachable(rebalance_child(rebalance_child(s, "left", parent),
                                   "right", parent))

\* ranks that are never carried up to the ancestors, for comparison with
\* retrace
retrace_skipped(s, node, depth_change) == s

RECURSIVE retrace(_, _, _)
\* DynamicBitVector::check_rebalance
check_rebalance(s, node, parent, depth_change) ==
    IF Abs(NodeAt(s, parent).rank) = 2 THEN rebalance(s, node, parent)
    ELSE retrace(s, parent, depth_change)

\* DynamicBitVector::retrace
retrace(s, node, depth_change) ==
    IF ~Running(s) THEN s
    ELSE IF ~HasNode(s, node) THEN Panic(s)
    ELSE IF NodeAt(s, node).rank = 0 THEN s
    ELSE
    LET sd == get_node_side(s, node)
    IN CASE sd.k = "P" -> Panic(s)
         [] sd.k = "N" -> s
         [] sd.k = "R" ->
              check_rebalance(
                  SetN(s, sd.v, "rank", NodeAt(s, sd.v).rank + depth_change),
                  node, sd.v, depth_change)
         [] OTHER ->
              check_rebalance(
                  SetN(s, sd.v, "rank", NodeAt(s, sd.v).rank - depth_change),
                  node, sd.v, depth_change)

-----------------------------------------------------------------------------
(* Aggregates                                                              *)

RECURSIVE full_nums_ones(_, _)
\* DynamicBitVector::full_nums_ones; [p |-> it panics, n |-> nums, o |-> ones]
full_nums_ones(s, child) ==
    IF child >= 0 THEN
        IF ~HasNode(s, child) THEN [p |-> TRUE, n |-> 0, o |-> 0]
        ELSE LET nd == NodeAt(s, child) IN
             IF nd.right # None THEN
                 LET f == full_nums_ones(s, nd.right)
                 IN [p |-> f.p, n |-> f.n + nd.nums, o |-> f.o + nd.ones]
             ELSE [p |-> FALSE, n |-> nd.nums, o |-> nd.ones]
    ELSE IF ~HasLeaf(s, child) THEN [p |-> TRUE, n |-> 0, o |-> 0]
    ELSE [p |-> FALSE, n |-> LeafAt(s, child).nums, o |-> Leaf_ones(LeafAt(s, child))]

\* DynamicBitVector::update_left_values_only; ret: child was the left child
update_left_values_only(s, node, child) ==
    IF ~Running(s) THEN s
    ELSE IF ~HasNode(s, node) THEN Panic(s)
    ELSE IF NodeAt(s, node).left # None /\ NodeAt(s, node).left = child THEN
        LET f == full_nums_ones(s, child) IN
        IF f.p THEN Panic(s)
        ELSE Ret(SetN(SetN(s, node, "nums", f.n), node, "ones", f.o), TRUE)
    ELSE Ret(s, FALSE)

RECURSIVE update_left_values(_, _, _)
\* DynamicBitVector::update_left_values, the step to the parent
update_left_values_up(s, node) ==
    IF ~Running(s) THEN s
    ELSE IF s.ret /\ NodeAt(s, node).parent # None
         THEN update_left_values(s, NodeAt(s, node).parent, node)
    ELSE s

\* DynamicBitVector::update_left_values
update_left_values(s, node, child) ==
    update_left_values_up(update_left_values_only(s, node, child), node)

\* DynamicBitVector::update_left_values_node
update_left_values_node(s, node) ==
    IF ~Running(s) THEN s
    ELSE IF ~HasNode(s, node) THEN Panic(s)
    ELSE IF NodeAt(s, node).left # None
         THEN update_left_values(s, node, NodeAt(s, node).left)
    ELSE SetN(SetN(s, node, "nums", 0), node, "ones", 0)

RECURSIVE validate_node(_, _)
\* DynamicBitVector::validate_node; p: an assert_eq! fails or an index panics
validate_node(s, node) ==
    IF ~HasNode(s, node) THEN [p |-> TRUE, n |-> 0, o |-> 0]
    ELSE
    LET nd == NodeAt(s, node)
        sub(c) == IF c = None THEN [p |-> FALSE, n |-> 0, o |-> 0]
                  ELSE IF c >= 0 THEN validate_node(s, c)
                  ELSE IF ~HasLeaf(s, c) THEN [p |-> TRUE, n |-> 0, o |-> 0]
                  ELSE [p |-> FALSE, n |-> LeafAt(s, c).nums,
                        o |-> Leaf_ones(LeafAt(s, c))]
        l == sub(nd.left)
    IN IF l.p \/ nd.nums # l.n \/ nd.ones # l.o THEN [p |-> TRUE, n |-> 0, o |-> 0]
       ELSE LET r == sub(nd.right)
            IN [p |-> r.p, n |-> l.n + r.n, o |-> l.o + r.o]

\* DynamicBitVector::validate(..).unwrap()
validate(s) ==
    IF ~Running(s) THEN s
    ELSE IF validate_node(s, s.root).p THEN Panic(s)
    ELSE s

-----------------------------------------------------------------------------
(* Node and leaf creation                                                  *)

\* DynamicBitVector::insert_node_common
insert_node_common(s, child_id, parent_id, int_id) ==
    LET values(t) ==
            SetN(SetN(t, int_id, "nums", LeafAt(t, child_id).nums),
                 int_id, "ones", Leaf_ones(LeafAt(t, child_id)))
    IN SetN(values(SetN(SetN(SetParentOf(s, child_id, int_id),
                             int_id, "parent", parent_id),
                        int_id, "left", child_id)),
            int_id, "rank", -1)

\* a new node that is never linked into the tree, for comparison with
\* insert_intermediary_node
insert_intermediary_skipped(s, child_id, int_node_id) == s

\* DynamicBitVector::insert_intermediary_node
insert_intermediary_node(s, child_id, int_node_id) ==
    IF ~Running(s) THEN s
    ELSE IF ~HasLeaf(s, child_id) THEN Panic(s)
    ELSE
    LET parent_id == LeafAt(s, child_id).parent IN
    IF ~HasNode(s, parent_id) THEN Panic(s)
    ELSE IF NodeAt(s, parent_id).left # None /\ NodeAt(s, parent_id).left = child_id
         THEN insert_node_common(SetN(s, parent_id, "left", int_node_id),
                                 child_id, parent_id, int_node_id)
    ELSE IF NodeAt(s, parent_id).right # None /\ NodeAt(s, parent_id).right = child_id
         THEN insert_node_common(SetN(s, parent_id, "right", int_node_id),
                                 child_id, parent_id, int_node_id)
    ELSE Panic(s)

\* DynamicBitVector::insert_node_at_leaf; ret: id of the new node
insert_node_at_leaf(s, leaf) ==
    IF ~Running(s) THEN s
    ELSE LET new_node_id == Len(s.nodes)
             s1 == [s EXCEPT !.nodes = Append(s.nodes, Node_new)]
         IN Ret(insert_intermediary_node(s1, leaf, new_node_id), new_node_id)

\* DynamicBitVector::move_right_child_left
move_right_child_left(s, node) ==
    IF ~Running(s) THEN s
    ELSE IF ~HasNode(s, node) THEN Panic(s)
    ELSE
    LET values(t) ==
            IF NodeAt(t, node).left = None \/ ~HasLeaf(t, NodeAt(t, node).left)
            THEN Panic(t)
            ELSE SetN(SetN(SetN(t, node, "nums", LeafAt(t, NodeAt(t, node).left).nums),
                           node, "ones", Leaf_ones(LeafAt(t, NodeAt(t, node).left))),
                      node, "rank", NodeAt(t, node).rank - 2)
    IN values(SetN(SetN(s, node, "left", NodeAt(s, node).right), node, "right", None))

\* DynamicBitVector::create_right_leaf; ret: id of the new leaf
create_right_leaf(s, node) ==
    IF ~Running(s) THEN s
    ELSE
    LET leaf_id == -Len(s.leafs)
        link(t) == SetN(SetN(t, node, "right", leaf_id),
                        node, "rank", NodeAt(t, node).rank + 1)
    IN Ret(retrace(link([s EXCEPT !.leafs = Append(s.leafs, Leaf_new(node))]),
                   node, 1),
           leaf_id)

-----------------------------------------------------------------------------
(* push                                                                    *)

RECURSIVE push_node(_, _, _)
RECURSIVE push_leaf(_, _, _)

\* DynamicBitVector::push_node
push_node(s, node, bit) ==
    IF ~Running(s) THEN s
    ELSE IF ~HasNode(s, node) THEN Panic(s)
    ELSE LET r == NodeAt(s, node).right IN
         IF r # None THEN
             IF r >= 0 THEN push_node(s, r, bit) ELSE push_leaf(s, r, bit)
         ELSE push_node(create_right_leaf(s, node), node, bit)

\* DynamicBitVector::push_leaf, after insert_node_at_leaf returned the new node
push_leaf_into(s, bit) == push_node(retrace(s, s.ret, 1), s.ret, bit)

\* DynamicBitVector::push_leaf
push_leaf(s, leaf, bit) ==
    IF ~Running(s) THEN s
    ELSE IF ~HasLeaf(s, leaf) THEN Panic(s)
    ELSE IF Leaf_push(LeafAt(s, leaf), bit).err = ""
         THEN OnLeaf(s, leaf, Leaf_push(LeafAt(s, leaf), bit))
    ELSE IF ~HasNode(s, LeafAt(s, leaf).parent) THEN Panic(s)
    ELSE IF NodeAt(s, LeafAt(s, leaf).parent).left # None
         THEN push_leaf_into(insert_node_at_leaf(s, leaf), bit)
    ELSE push_node(move_right_child_left(s, LeafAt(s, leaf).parent),
                   LeafAt(s, leaf).parent, bit)

\* DynamicBitVector::push
push(s, bit) ==
    IF debug THEN validate(push_node(s, s.root, bit))
    ELSE push_node(s, s.root, bit)

-----------------------------------------------------------------------------
(* insert                                                                  *)

RECURSIVE insert_node(_, _, _, _)
RECURSIVE insert_leaf(_, _, _, _)

\* `split_to_right` of leaf, `create_right_leaf(node)` and the filling of the
\* new leaf, as split_leaf and insert_leaf both do it
move_upper_half(s, leaf, node) ==
    LET fill(u, values) ==
            SetL(u, u.ret, [LeafAt(u, u.ret) EXCEPT !.value = values, !.nums = HALF])
    IN fill(create_right_leaf(OnLeaf(s, leaf, split_to_right(LeafAt(s, leaf))), node),
            split_to_right(LeafAt(s, leaf)).v)

\* DynamicBitVector::split_leaf, after insert_node_at_leaf returned new_node
split_leaf_at(s, leaf) ==
    Ret(update_left_values_only(move_upper_half(retrace(s, s.ret, 1), leaf, s.ret),
                                s.ret, leaf),
        s.ret)

\* DynamicBitVector::split_leaf; ret: the new node
split_leaf(s, leaf) == split_leaf_at(insert_node_at_leaf(s, leaf), leaf)

\* DynamicBitVector::insert_leaf, the retry after the leaf moved to the left
insert_leaf_moved(s, leaf, index, bit) ==
    insert_node(update_left_values_only(s, LeafAt(s, leaf).parent, leaf),
                LeafAt(s, leaf).parent, index, bit)

\* DynamicBitVector::insert_leaf, the retry after split_leaf
insert_leaf_split(s, index, bit) == insert_node(s, s.ret, index, bit)

\* DynamicBitVector::insert_leaf; ret: "" for Ok(()) or the leaf's message
insert_leaf(s, leaf, index, bit) ==
    IF ~Running(s) THEN s
    ELSE IF ~HasLeaf(s, leaf) THEN Panic(s)
    ELSE IF LeafAt(s, leaf).nums >= BITS /\ ~HasNode(s, LeafAt(s, leaf).parent)
         THEN Panic(s)
    ELSE IF LeafAt(s, leaf).nums >= BITS
            /\ NodeAt(s, LeafAt(s, leaf).parent).left = None
         THEN insert_leaf_moved(
                  move_upper_half(move_right_child_left(s, LeafAt(s, leaf).parent),
                                  leaf, LeafAt(s, leaf).parent),
                  leaf, index, bit)
    ELSE IF LeafAt(s, leaf).nums >= BITS
         THEN insert_leaf_split(split_leaf(s, leaf), index, bit)
    ELSE Ret(OnLeaf(s, leaf, Leaf_insert(LeafAt(s, leaf), index, bit)),
             Leaf_insert(LeafAt(s, leaf), index, bit).err)

\* DynamicBitVector::insert_node, into the leaf create_right_leaf returned
insert_node_created(s, node, index, bit) ==
    insert_leaf(s, s.ret, index - NodeAt(s, node).nums, bit)

\* DynamicBitVector::insert_node
insert_node(s, node, index, bit) ==
    IF ~Running(s) THEN s
    ELSE IF ~HasNode(s, node) THEN Panic(s)
    ELSE
    LET nd == NodeAt(s, node)
        count(t) == IF bit THEN SetN(t, node, "ones", nd.ones + 1) ELSE t
    IN IF ULe(nd.nums, index) THEN
           IF nd.right # None THEN
               IF nd.right >= 0 THEN insert_node(s, nd.right, index - nd.nums, bit)
               ELSE insert_leaf(s, nd.right, index - nd.nums, bit)
           ELSE insert_node_created(create_right_leaf(s, node), node, index, bit)
       ELSE IF nd.left = None THEN Panic(s)
       ELSE IF nd.left >= 0
            THEN insert_node(count(SetN(s, node, "nums", nd.nums + 1)),
                             nd.left, index, bit)
       ELSE insert_leaf(count(SetN(s, node, "nums", nd.nums + 1)),
                        nd.left, index, bit)

-----------------------------------------------------------------------------
(* Read-only descents; each gives [p |-> it panics, v |-> the value]       *)

QR(p, v) == [p |-> p, v |-> v]

RECURSIVE get_node(_, _, _)
\* DynamicBitVector::get_node
get_node(s, node, index) ==
    IF ~HasNode(s, node) THEN QR(TRUE, FALSE)
    ELSE
    LET nd == NodeAt(s, node)
        at(l, i) == IF ~HasLeaf(s, l) THEN QR(TRUE, FALSE)
                    ELSE LET r == Leaf_access(LeafAt(s, l), i) IN QR(r.p, r.v)
    IN IF ULe(nd.nums, index) THEN
           IF nd.right = None THEN QR(TRUE, FALSE)
           ELSE IF nd.right > 0 THEN get_node(s, nd.right, index - nd.nums)
           ELSE at(nd.right, index - nd.nums)
       ELSE IF nd.left = None THEN QR(TRUE, FALSE)
       ELSE IF nd.left > 0 THEN get_node(s, nd.left, index)
       ELSE at(nd.left, index)

\* <DynamicBitVector as StaticBitVec>::access
access(s, index) == get_node(s, s.root, index)

RECURSIVE get_node_leaf(_, _, _)
\* DynamicBitVector::get_node: the slot of `leafs` that the descent reads
\* (Index<isize> takes the slot |child id|), None when it panics before
get_node_leaf(s, node, index) ==
    IF ~HasNode(s, node) THEN None
    ELSE
    LET nd == NodeAt(s, node)
    IN IF ULe(nd.nums, index) THEN
           IF nd.right = None THEN None
           ELSE IF nd.right > 0 THEN get_node_leaf(s, nd.right, index - nd.nums)
           ELSE Abs(nd.right)
       ELSE IF nd.left = None THEN None
       ELSE IF nd.left > 0 THEN get_node_leaf(s, nd.left, index)
       ELSE Abs(nd.left)

\* DynamicBitVector::rank_add / len_add
bitop_add(s, node, op, left_descent) ==
    IF op = "len" THEN NodeAt(s, node).nums
    ELSE IF left_descent THEN 0 ELSE NodeAt(s, node).ones

\* DynamicBitVector::rank_leaf / len_leaf
bitop_leaf(s, leaf, op, index, bit) ==
    IF ~HasLeaf(s, leaf) THEN QR(TRUE, 0)
    ELSE IF op = "len" THEN QR(FALSE, LeafAt(s, leaf).nums)
    ELSE LET r == Leaf_rank(LeafAt(s, leaf), bit, index) IN QR(r.p, r.v)

RECURSIVE apply_bitop_node(_, _, _, _, _)
\* DynamicBitVector::apply_bitop_node with (f, g) = (rank_leaf, rank_add) for
\* op = "rank" and (len_leaf, len_add) for op = "len"
apply_bitop_node(s, node, op, index, bit) ==
    IF ~HasNode(s, node) THEN QR(TRUE, 0)
    ELSE
    LET nd == NodeAt(s, node)
        plus(g, r) == QR(r.p, g + r.v)
    IN IF ULe(nd.nums, index) THEN
           IF nd.right = None THEN QR(TRUE, 0)
           ELSE IF nd.right >= 0
                THEN plus(bitop_add(s, node, op, FALSE),
                          apply_bitop_node(s, nd.right, op, index - nd.nums, bit))
           ELSE plus(bitop_add(s, node, op, FALSE),
                     bitop_leaf(s, nd.right, op, index - nd.nums, bit))
       ELSE IF nd.left = None THEN QR(TRUE, 0)
       ELSE IF nd.left >= 0
            THEN plus(bitop_add(s, node, op, TRUE),
                      apply_bitop_node(s, nd.left, op, index, bit))
       ELSE bitop_leaf(s, nd.left, op, index, bit)

\* <DynamicBitVector as StaticBitVec>::rank
rank(s, bit, index) == apply_bitop_node(s, s.root, "rank", index, bit)

\* DynamicBitVector::len, index = usize::MAX
len(s) == apply_bitop_node(s, s.root, "len", -1, FALSE)

RECURSIVE select_node(_, _, _, _)
\* DynamicBitVector::select_node
select_node(s, node, n, bit) ==
    IF ~HasNode(s, node) THEN QR(TRUE, 0)
    ELSE
    LET nd == NodeAt(s, node)
        plus(g, r) == QR(r.p, g + r.v)
        leaf(l, k) == IF ~HasLeaf(s, l) THEN QR(TRUE, 0)
                      ELSE LET r == Leaf_select(LeafAt(s, l), bit, k) IN QR(r.p, r.v)
    IN IF USubOverflows(nd.nums, nd.ones) THEN QR(TRUE, 0)
       ELSE IF ULe(nd.nums - nd.ones, n) THEN
           IF nd.right = None \/ USubOverflows(n, nd.nums) THEN QR(TRUE, 0)
           ELSE IF nd.right >= 0
                THEN plus(nd.nums, select_node(s, nd.right, n - nd.nums, bit))
           ELSE plus(nd.nums, leaf(nd.right, n - nd.nums))
       ELSE IF nd.left = None THEN QR(TRUE, 0)
       ELSE IF nd.left >= 0 THEN select_node(s, nd.left, n, bit)
       ELSE leaf(nd.left, n)

\* <DynamicBitVector as StaticBitVec>::select
select(s, bit, n) == select_node(s, s.root, n, bit)

\* <DynamicBitVector as StaticBitVec>::ones
ones(s) == NodeAt(s, s.root).ones

\* <DynamicBitVector as DynBitVec>::nums
nums(s) == NodeAt(s, s.root).nums

-----------------------------------------------------------------------------
(* delete: neighbours, merging, stealing, removal                          *)

RECURSIVE closest_neighbor_child(_, _)
\* DynamicBitVector::descend_leftmost. With a node as the first child found it
\* calls itself on the same `node`: the recursion never ends.
descend_leftmost(s, node) ==
    IF ~HasNode(s, node) THEN Side("P", 0)
    ELSE LET nd == NodeAt(s, node) IN
         IF nd.left # None THEN
             IF nd.left >= 0 THEN Side("H", 0) ELSE Side("L", nd.left)
         ELSE IF nd.right # None THEN
             IF nd.right >= 0 THEN Side("H", 0) ELSE Side("L", nd.right)
         ELSE Side("P", 0)

\* DynamicBitVector::descend_rightmost
descend_rightmost(s, node) ==
    IF ~HasNode(s, node) THEN Side("P", 0)
    ELSE LET nd == NodeAt(s, node) IN
         IF nd.right # None THEN
             IF nd.right >= 0 THEN Side("H", 0) ELSE Side("R", nd.right)
         ELSE IF nd.left # None THEN
             IF nd.left >= 0 THEN Side("H", 0) ELSE Side("R", nd.left)
         ELSE Side("P", 0)

\* DynamicBitVector::closest_neighbor_child
closest_neighbor_child(s, child) ==
    IF ~HasNode(s, child) THEN Side("P", 0)
    ELSE LET p == NodeAt(s, child).parent IN
         IF p = None THEN Side("N", 0)
         ELSE IF ~HasNode(s, p) THEN Side("P", 0)
         ELSE IF NodeAt(s, p).left # None /\ NodeAt(s, p).left # child
              THEN descend_rightmost(s, p)
         ELSE IF NodeAt(s, p).right # None /\ NodeAt(s, p).right # child
              THEN descend_leftmost(s, p)
         ELSE closest_neighbor_child(s, p)

\* DynamicBitVector::closest_neighbor_leaf
closest_neighbor_leaf(s, leaf) ==
    IF ~HasLeaf(s, leaf) THEN Side("P", 0)
    ELSE LET parent == LeafAt(s, leaf).parent IN
         IF ~HasNode(s, parent) THEN Side("P", 0)
         ELSE IF NodeAt(s, parent).left # None /\ NodeAt(s, parent).left # leaf
              THEN Side("R", NodeAt(s, parent).left)
         ELSE IF NodeAt(s, parent).right # None /\ NodeAt(s, parent).right # leaf
              THEN Side("L", NodeAt(s, parent).right)
         ELSE closest_neighbor_child(s, parent)

\* Vec::swap_remove at 0-based position idx
SwapRemove(seq, idx) ==
    LET n == Len(seq) IN
    IF idx = n - 1 THEN SubSeq(seq, 1, n - 1)
    ELSE [SubSeq(seq, 1, n - 1) EXCEPT ![idx + 1] = seq[n]]

\* DynamicBitVector::swap_remove_leaf
swap_remove_leaf(s, leaf) ==
    IF ~Running(s) THEN s
    ELSE
    LET relink(t, sd) ==
            IF sd.k = "P" THEN Panic(t)
            ELSE SetN(t, sd.v, IF sd.k = "L" THEN "left" ELSE "right", leaf)
        remove(t) ==
            IF ~Running(t) THEN t
            ELSE IF -leaf < 0 \/ -leaf >= Len(t.leafs) THEN Panic(t)
            ELSE [t EXCEPT !.leafs = SwapRemove(t.leafs, -leaf)]
    IN remove(relink(s, get_leaf_side(s, Len(s.leafs) - 1)))

\* DynamicBitVector::swap_remove_node
swap_remove_node(s, node) ==
    IF ~Running(s) THEN s
    ELSE
    LET relink(t, sd) ==
            IF sd.k = "P" THEN Panic(t)
            ELSE IF sd.k = "L" THEN SetN(t, sd.v, "left", node)
            ELSE IF sd.k = "R" THEN SetN(t, sd.v, "right", node)
            ELSE [t EXCEPT !.root = node]
        remove(t) ==
            IF ~Running(t) THEN t
            ELSE IF ~HasNode(t, node) THEN Panic(t)
            ELSE [t EXCEPT !.nodes = SwapRemove(t.nodes, node)]
    IN remove(relink(s, get_node_side(s, Len(s.nodes) - 1)))

\* DynamicBitVector::remove_retrace, one `if let Some(l) = parent.left` block:
\* the first clears `left` (rank + 1), the second clears `right` (rank - 1)
remove_retrace_block(s, parent, removed_child, field, d) ==
    IF ~Running(s) THEN s
    ELSE IF ~HasNode(s, parent) THEN Panic(s)
    ELSE IF NodeAt(s, parent).left # None /\ NodeAt(s, parent).left = removed_child THEN
        LET unlink(t) == SetN(SetN(t, parent, field, None),
                              parent, "rank", NodeAt(t, parent).rank + d)
        IN IF Abs(NodeAt(unlink(s), parent).rank) = 2
           THEN rebalance_no_child(unlink(s), parent)
           ELSE retrace(unlink(s), parent, d)
    ELSE s

\* DynamicBitVector::remove_retrace; the second block tests `left` again
remove_retrace(s, parent, removed_child) ==
    remove_retrace_block(remove_retrace_block(s, parent, removed_child, "left", 1),
                         parent, removed_child, "right", -1)

\* DynamicBitVector::merge_leafs, removal of a parent left without children
merge_leafs_remove(s, parent) ==
    IF ~Running(s) THEN s
    ELSE IF ~HasNode(s, parent) THEN Panic(s)
    ELSE IF NodeAt(s, parent).left = None /\ NodeAt(s, parent).right = None
            /\ NodeAt(s, parent).parent # None
         THEN remove_retrace(swap_remove_node(s, parent),
                             NodeAt(s, parent).parent, parent)
    ELSE s

\* DynamicBitVector::merge_leafs, after swap_remove_leaf
merge_leafs_balance(s, parent) ==
    IF ~Running(s) THEN s
    ELSE IF ~HasNode(s, parent) THEN Panic(s)
    ELSE IF Abs(NodeAt(s, parent).rank) = 2
         THEN merge_leafs_remove(rebalance_no_child(s, parent), parent)
    ELSE retrace(s, parent, -1)

\* DynamicBitVector::merge_leafs; nb is the Side value from closest_neighbor_leaf
merge_leafs(s, small_leaf, nb) ==
    IF ~Running(s) THEN s
    ELSE IF ~HasLeaf(s, small_leaf) THEN Panic(s)
    ELSE
    LET parent == LeafAt(s, small_leaf).parent
        absorb(t) ==
            IF nb.k = "L"
            THEN OnLeaf(t, nb.v, extend_from(LeafAt(t, nb.v), LeafAt(t, small_leaf)))
            ELSE OnLeaf(t, nb.v, prepend(LeafAt(t, nb.v), LeafAt(t, small_leaf)))
        shrink(t) ==
            SetN(t, parent, "rank",
                 NodeAt(t, parent).rank + (IF nb.k = "L" THEN 1 ELSE -1))
    IN merge_leafs_balance(swap_remove_leaf(shrink(absorb(s)), small_leaf), parent)

\* DynamicBitVector::merge_away, with the neighbour closest_neighbor_leaf found
merge_away_with(s, leaf, nb) ==
    LET give(t, sp, stolen_bits) ==
            OnLeaf(t, leaf, extend(LeafAt(t, leaf), nb.k, sp.v, stolen_bits))
        steal(t, sp) ==
            give(OnLeaf(t, nb.v, sp), sp, LeafAt(t, nb.v).nums - HALF)
        mine(t) ==
            IF ~Running(t) THEN t
            ELSE update_left_values(t, LeafAt(t, leaf).parent, leaf)
        theirs(t) ==
            IF ~Running(t) THEN t
            ELSE IF ~HasLeaf(t, nb.v) THEN Panic(t)
            ELSE update_left_values(t, LeafAt(t, nb.v).parent, nb.v)
    IN IF nb.k = "P" THEN Panic(s)
       ELSE IF nb.k = "H" THEN Hang(s)
       ELSE IF nb.k = "N" THEN s
       ELSE IF ~HasLeaf(s, nb.v) THEN Panic(s)
       ELSE IF LeafAt(s, nb.v).nums <= (3 * BITS) \div 4
            THEN theirs(update_left_values_node(merge_leafs(s, leaf, nb),
                                                LeafAt(s, leaf).parent))
       ELSE IF nb.k = "R"
            THEN theirs(mine(steal(s, split_to_left(LeafAt(s, nb.v)))))
       ELSE theirs(mine(steal(s, split_to_right(LeafAt(s, nb.v)))))

\* DynamicBitVector::merge_away
merge_away(s, leaf) ==
    IF ~Running(s) THEN s
    ELSE merge_away_with(s, leaf, closest_neighbor_leaf(s, leaf))

\* DynamicBitVector::delete_leaf; ret: [err, leaf] for Err(err) / Ok(leaf)
delete_leaf(s, leaf, index) ==
    IF ~Running(s) THEN s
    ELSE IF ~HasLeaf(s, leaf) THEN Panic(s)
    ELSE IF Leaf_delete(LeafAt(s, leaf), index).err # ""
         THEN Ret(s, [err |-> Leaf_delete(LeafAt(s, leaf), index).err, leaf |-> leaf])
    ELSE
    LET deleted == OnLeaf(s, leaf, Leaf_delete(LeafAt(s, leaf), index))
    IN IF Running(deleted) /\ LeafAt(deleted, leaf).nums <= BITS \div 4
       THEN Ret(merge_away(deleted, leaf), [err |-> "", leaf |-> leaf])
       ELSE Ret(deleted, [err |-> "", leaf |-> leaf])

\* DynamicBitVector::flip_leaf
flip_leaf(s, leaf, index) ==
    IF ~Running(s) THEN s
    ELSE IF ~HasLeaf(s, leaf) THEN Panic(s)
    ELSE Ret(OnLeaf(s, leaf, Leaf_flip(LeafAt(s, leaf), index)),
             [err |-> "", leaf |-> leaf])

\* the leaf function `f` that DynamicBitVector::apply_node is called with
apply_leaf(s, f, leaf, index) ==
    IF f = "delete_leaf" THEN delete_leaf(s, leaf, index)
    ELSE IF f = "flip_leaf" THEN flip_leaf(s, leaf, index)
    ELSE Ret(s, [err |-> "", leaf |-> leaf])

RECURSIVE apply_node(_, _, _, _)
\* DynamicBitVector::apply_node with f one of delete_leaf, flip_leaf, leaf_id
apply_node(s, node, f, index) ==
    IF ~Running(s) THEN s
    ELSE IF ~HasNode(s, node) THEN Panic(s)
    ELSE
    LET nd == NodeAt(s, node)
    IN IF ULe(nd.nums, index) THEN
           IF nd.right = None THEN Panic(s)
           ELSE IF nd.right >= 0 THEN apply_node(s, nd.right, f, index - nd.nums)
           ELSE apply_leaf(s, f, nd.right, index - nd.nums)
       ELSE IF nd.left = None THEN Panic(s)
       ELSE IF nd.left >= 0 THEN apply_node(s, nd.left, f, index)
       ELSE apply_leaf(s, f, nd.left, index)

-----------------------------------------------------------------------------
(* The DynBitVec operations (dynamic_vector/impls.rs)                      *)

\* the debug build's error arm: apply(Self::leaf_id, index), then Err(e)
ErrArm(s, index, e) ==
    IF ~debug THEN Ret(s, e)
    ELSE Ret(apply_node(s, s.root, "leaf_id", index), e)

\* <DynamicBitVector as DynBitVec>::insert, the match on insert_node's result
insert_result(s, index) ==
    IF Running(s) /\ s.ret # "" THEN ErrArm(s, index, s.ret) ELSE s

\* <DynamicBitVector as DynBitVec>::insert; ret: "" for Ok(())
insert(s, index, bit) == insert_result(insert_node(s, s.root, index, bit), index)

\* <DynamicBitVector as DynBitVec>::delete, the match on apply's result
delete_result(s, index) ==
    IF ~Running(s) THEN s
    ELSE IF s.ret.err # "" THEN ErrArm(s, index, s.ret.err)
    ELSE IF ~HasLeaf(s, s.ret.leaf) THEN Panic(s)
    ELSE Ret(update_left_values(s, LeafAt(s, s.ret.leaf).parent, s.ret.leaf), "")

\* <DynamicBitVector as DynBitVec>::delete; ret: "" for Ok(())
delete(s, index) == delete_result(apply_node(s, s.root, "delete_leaf", index), index)

\* <DynamicBitVector as DynBitVec>::flip, after apply returned the leaf
flip_result(s) ==
    IF ~Running(s) THEN s
    ELSE IF ~HasLeaf(s, s.ret.leaf) THEN Panic(s)
    ELSE Ret(update_left_values(s, LeafAt(s, s.ret.leaf).parent, s.ret.leaf), "")

\* <DynamicBitVector as DynBitVec>::flip
flip(s, index) == flip_result(apply_node(s, s.root, "flip_leaf", index))

-----------------------------------------------------------------------------
(* The state machine: a vector built by DynamicBitVector::new() and then   *)
(* driven by push / insert / delete / flip with in-bounds indices.         *)

\* the vector as the record the operators above work on
Cur == [root |-> root, nodes |-> nodes, leafs |-> leafs, st |-> "ok", ret |-> "",
        dbl |-> <<>>, rots |-> <<>>]

\* used bits of one leaf, lowest position first
LeafBits(l) == [i \in 1..l.nums |-> BitOf(l.value, i - 1) = 1]

RECURSIVE InOrder(_, _, _)
\* in-order concatenation of the used bits of the leaves below `child`
InOrder(s, child, fuel) ==
    IF child = None \/ fuel = 0 THEN <<>>
    ELSE IF child >= 0 THEN
        IF ~HasNode(s, child) THEN <<>>
        ELSE InOrder(s, NodeAt(s, child).left, fuel - 1)
             \o InOrder(s, NodeAt(s, child).right, fuel - 1)
    ELSE IF ~HasLeaf(s, child) THEN <<>>
    ELSE LeafBits(LeafAt(s, child))

\* the stored sequence
ContentsOf(s) == InOrder(s, s.root, Len(s.nodes) + 1)
Contents == ContentsOf(Cur)

\* plain-sequence reference operations, 0-based positions; a position outside
\* the reference leaves it as it is
SeqInsert(q, i, b) ==
    IF i > Len(q) THEN q ELSE SubSeq(q, 1, i) \o <<b>> \o SubSeq(q, i + 1, Len(q))
SeqDelete(q, i) ==
    IF i >= Len(q) THEN q ELSE SubSeq(q, 1, i) \o SubSeq(q, i + 2, Len(q))
SeqFlip(q, i) ==
    IF i >= Len(q) THEN q ELSE [q EXCEPT ![i + 1] = ~q[i + 1]]

\* DynamicBitVector::new()
Fresh ==
    /\ root = 0
    /\ nodes = <<Node_new>>
    /\ leafs = <<Leaf_new(0)>>
    /\ status = "ok"
    /\ ret = ""
    /\ debug \in BOOLEAN
    /\ bmi \in BOOLEAN
    /\ ref = <<>>

Init == Fresh /\ calls = MaxOps

\* the outcome s of one call becomes the next state; an aborted call leaves
\* the process dead with the vector (and the reference) as they were
Commit(s, r) ==
    /\ calls > 0
    /\ calls' = calls - 1
    /\ status' = s.st
    /\ IF s.st = "ok"
       THEN root' = s.root /\ nodes' = s.nodes /\ leafs' = s.leafs
            /\ ret' = s.ret /\ ref' = r
       ELSE UNCHANGED <<root, nodes, leafs, ret, ref>>
    /\ UNCHANGED <<debug, bmi>>

Push(b) ==
    /\ status = "ok"
    /\ Len(Contents) < MaxLen
    /\ Commit(Ret(push(Cur, b), ""), Append(ref, b))

Insert(i, b) ==
    /\ status = "ok"
    /\ Len(Contents) < MaxLen
    /\ i <= Len(Contents)
    /\ Commit(insert(Cur, i, b), SeqInsert(ref, i, b))

Delete(i) ==
    /\ status = "ok"
    /\ i < Len(Contents)
    /\ Commit(delete(Cur, i), SeqDelete(ref, i))

Flip(i) ==
    /\ status = "ok"
    /\ i < Len(Contents)
    /\ Commit(flip(Cur, i), SeqFlip(ref, i))

\* positions that are in bounds for insert
Positions == 0..Len(Contents)

Next ==
    \/ \E b \in BOOLEAN : Push(b)
    \/ \E i \in Positions, b \in BOOLEAN : Insert(i, b)
    \/ \E i \in Positions : Delete(i)
    \/ \E i \in Positions : Flip(i)

Spec == Init /\ [][Next]_vars

\* Longer runs of the operations that change the shape of the tree.  Shape,
\* nums and rank never depend on the values of the bits, and no mutating
\* operation calls Leaf::select, so one bit value and one value of bmi are
\* used here.
InitBalance == Fresh /\ bmi = TRUE /\ calls = BalanceOps

NextBalance ==
    \/ Push(TRUE)
    \/ \E i \in Positions : Insert(i, TRUE)
    \/ \E i \in Positions : Delete(i)

SpecBalance == InitBalance /\ [][NextBalance]_vars

\* Runs of push and insert only (no delete, no flip).
NextGrow ==
    \/ \E b \in BOOLEAN : Push(b)
    \/ \E i \in Positions, b \in BOOLEAN : Insert(i, b)

SpecGrow == Init /\ [][NextGrow]_vars

\* Runs that mix flip with the operations that change the shape of the tree;
\* one pushed bit value and one value of bmi, as in SpecBalance.
InitFlip == Fresh /\ bmi = TRUE /\ calls = FlipOps

NextFlip ==
    \/ Push(TRUE)
    \/ \E i \in Positions : Insert(i, TRUE)
    \/ \E i \in Positions : Delete(i)
    \/ \E i \in Positions : Flip(i)

SpecFlip == InitFlip /\ [][NextFlip]_vars

\* Calls with an index outside the stored sequence: insert beyond len, delete
\* and flip at or beyond len.  The sequence the callers asked for stays ref.
InsertOut(i, b) ==
    /\ status = "ok"
    /\ i > Len(Contents)
    /\ Commit(insert(Cur, i, b), ref)

DeleteOut(i) ==
    /\ status = "ok"
    /\ i >= Len(Contents)
    /\ Commit(delete(Cur, i), ref)

FlipOut(i) ==
    /\ status = "ok"
    /\ i >= Len(Contents)
    /\ Commit(flip(Cur, i), ref)

OutPositions == Len(Contents)..(MaxLen + 1)

\* Runs of push and of calls with an out-of-bounds index.
NextOut ==
    \/ \E b \in BOOLEAN : Push(b)
    \/ \E i \in OutPositions, b \in BOOLEAN : InsertOut(i, b)
    \/ \E i \in OutPositions : DeleteOut(i)
    \/ \E i \in OutPositions : FlipOut(i)

SpecOut == Init /\ [][NextOut]_vars

\* Runs of 6 * BITS pushes of one and the same bit onto a new vector.
PushRun == 6 * BITS

PushSame(b) ==
    /\ status = "ok"
    /\ (IF ref = <<>> THEN TRUE ELSE Head(ref) = b)
    /\ Commit(Ret(push(Cur, b), ""), Append(ref, b))

InitPush == Fresh /\ calls = PushRun

SpecPush == InitPush /\ [][\E b \in BOOLEAN : PushSame(b)]_vars

\* Runs of BITS + 1 inserts at the two ends of a new vector.  In these runs
\* ref is the log of the calls made, one pair <<front, bit>> per insert, and
\* the index of an insert at the end is the number of inserts made before it.
InsertEnd(front, b) ==
    /\ status = "ok"
    /\ Commit(insert(Cur, IF front THEN 0 ELSE Len(ref), b),
              Append(ref, <<front, b>>))

InitEnds == Fresh /\ calls = BITS + 1

SpecEnds ==
    InitEnds /\ [][\E front \in BOOLEAN, b \in BOOLEAN : InsertEnd(front, b)]_vars

\* Runs of 2 * BITS pushes followed by the deletes of the positions BITS - 1
\* down to 0, one per call; calls counts the calls that are left, and ref
\* stays the sequence that was pushed.
InitCollapse == Fresh /\ calls = 3 * BITS

DeleteDown ==
    /\ status = "ok"
    /\ calls <= BITS
    /\ Commit(delete(Cur, calls - 1), ref)

SpecCollapse ==
    InitCollapse
    /\ [][(\E b \in BOOLEAN : calls > BITS /\ Push(b)) \/ DeleteDown]_vars

\* Runs of pushes and inserts of one bit value, long enough for an insert to
\* split the inner leaf under the heavier child of the root.
SpecDouble ==
    InitFlip /\ [][Push(TRUE) \/ \E i \in Positions : Insert(i, TRUE)]_vars

\* Runs of pushes and of inserts near the front, which make the tree grow to
\* the left.
SpecRotate ==
    InitBalance /\ [][Push(TRUE) \/ Insert(1, TRUE)]_vars

\* One leaf on its own: every leaf that pushes can build, then calls on it.
\* ref is the result of the last select.
InitLeaf ==
    /\ root = 0
    /\ nodes = <<Node_new>>
    /\ \E n \in 0..BITS : \E v \in 0..(2^n - 1) : leafs = <<Leaf_create(0, v, n)>>
    /\ status = "ok"
    /\ ret = ""
    /\ debug \in BOOLEAN
    /\ bmi \in BOOLEAN
    /\ ref = <<>>
    /\ calls = 2

LeafInsert(i, b) ==
    /\ status = "ok"
    /\ Commit(Ret(OnLeaf(Cur, 0, Leaf_insert(leafs[1], i, b)),
                  Leaf_insert(leafs[1], i, b).err), ref)

LeafDelete(i) ==
    /\ status = "ok"
    /\ Commit(Ret(OnLeaf(Cur, 0, Leaf_delete(leafs[1], i)),
                  Leaf_delete(leafs[1], i).err), ref)

LeafSelect(b, n) ==
    /\ status = "ok"
    /\ Commit(Ret(OnLeaf(Cur, 0, Leaf_select(leafs[1], b, n)), ""),
              <<Leaf_select(leafs[1], b, n).v>>)

\* the container of the leaf taken as a u64: value.select(b, n)
WordSelect(b, n) ==
    /\ status = "ok"
    /\ Commit(IF select_internal(leafs[1].value, b, n, bmi).p THEN Panic(Cur) ELSE Cur,
              <<select_internal(leafs[1].value, b, n, bmi).v>>)

\* extend_from (front = FALSE) or prepend (front = TRUE) with another leaf of
\* n bits that fits into the free part of the leaf
LeafExtend(front, n, v) ==
    /\ status = "ok"
    /\ leafs[1].nums + n <= BITS
    /\ Commit(Ret(OnLeaf(Cur, 0, IF front THEN prepend(leafs[1], Leaf_create(0, v, n))
                                  ELSE extend_from(leafs[1], Leaf_create(0, v, n))),
                  ""), ref)

SpecLeaf ==
    InitLeaf
    /\ [][\/ \E i \in 0..BITS, b \in BOOLEAN : LeafInsert(i, b)
          \/ \E front \in BOOLEAN, n \in 0..BITS :
                \E v \in 0..(2^n - 1) : LeafExtend(front, n, v)
          \/ \E i \in 0..BITS : LeafDelete(i)
          \/ \E b \in BOOLEAN, n \in 0..BITS : LeafSelect(b, n)
          \/ \E b \in BOOLEAN, n \in 0..BITS : WordSelect(b, n)]_vars

-----------------------------------------------------------------------------
(* Properties                                                              *)

RECURSIVE NodesBelow(_, _, _)
\* the nodes of the subtree under `child`
NodesBelow(s, child, fuel) ==
    IF child = None \/ child < 0 \/ fuel = 0 \/ ~HasNode(s, child) THEN {}
    ELSE {child} \cup NodesBelow(s, NodeAt(s, child).left, fuel - 1)
                 \cup NodesBelow(s, NodeAt(s, child).right, fuel - 1)

\* the nodes reachable from the root
Reachable == NodesBelow(Cur, root, Len(nodes) + 1)

RECURSIVE LeavesBelow(_, _, _)
\* the leaf ids of the subtree under `child`, in order
LeavesBelow(s, child, fuel) ==
    IF child = None \/ fuel = 0 THEN <<>>
    ELSE IF child >= 0 THEN
        IF ~HasNode(s, child) THEN <<>>
        ELSE LeavesBelow(s, NodeAt(s, child).left, fuel - 1)
             \o LeavesBelow(s, NodeAt(s, child).right, fuel - 1)
    ELSE IF ~HasLeaf(s, child) THEN <<>>
    ELSE <<child>>

RECURSIVE UsedOver(_)
\* used bits of the leaves with the ids in q
UsedOver(q) == IF q = <<>> THEN 0 ELSE LeafAt(Cur, Head(q)).nums + UsedOver(Tail(q))

RECURSIVE OnesOver(_)
\* 1-bits of the containers of the leaves with the ids in q
OnesOver(q) ==
    IF q = <<>> THEN 0
    ELSE count_ones(LeafAt(Cur, Head(q)).value) + OnesOver(Tail(q))

\* used bits / 1-bits of the leaves in the left subtree of node n
LeftUsed(n) == UsedOver(LeavesBelow(Cur, NodeAt(Cur, n).left, Len(nodes) + 1))
LeftOnes(n) == OnesOver(LeavesBelow(Cur, NodeAt(Cur, n).left, Len(nodes) + 1))

\* number of b-valued entries of q at (0-based) positions [0, i)
CountIn(q, b, i) == Cardinality({k \in 1..i : q[k] = b})

\* 0-based position of the (n+1)-th b-valued entry of q
NthPos(q, b, n) ==
    CHOOSE k \in 0..(Len(q) - 1) : q[k + 1] = b /\ CountIn(q, b, k) = n

\* C1: after every completed push, insert, delete or flip, every node
\* reachable from the root has nums = the used bits and ones = the 1-bits of
\* the leaves in its left subtree (0 and 0 without a left child).
C1_Aggregates ==
    status = "ok" =>
        \A n \in Reachable :
            /\ NodeAt(Cur, n).nums = LeftUsed(n)
            /\ NodeAt(Cur, n).ones = LeftOnes(n)

\* C2: after every completed push, insert or delete, the rank field of every
\* node is -1, 0 or +1.
C2_RankInvariant ==
    status = "ok" => \A n \in 1..Len(nodes) : Abs(nodes[n].rank) <= 1

\* a completed rebalancing has made another node the root, and three or more
\* nodes are in the tree
C2_Witness ==
    /\ status = "ok"
    /\ root # 0
    /\ Cardinality(Reachable) >= 3
    /\ \A n \in 1..Len(nodes) : Abs(nodes[n].rank) <= 1

\* C3: push and every in-bounds insert, delete, flip, access and rank call
\* completes without aborting, and no call returns the leaf's Full or Empty
\* signal to the caller.
C3_NoAbort ==
    /\ status = "ok"
    /\ ret \notin {"Full", "Empty"}
    /\ \A i \in 0..(Len(Contents) - 1) : ~access(Cur, i).p
    /\ \A b \in BOOLEAN, i \in 0..Len(Contents) : ~rank(Cur, b, i).p

\* C4: after pushes and in-bounds inserts only, access(i) returns for every
\* i < len the bit the reference sequence holds at position i.
C4_AccessRoundTrip ==
    status = "ok" =>
        \A i \in 0..(Len(ref) - 1) : access(Cur, i) = QR(FALSE, ref[i + 1])

\* C5: insert(i, b) with i <= len returns Ok, and afterwards the stored
\* sequence is the previous one with b inserted at position i.
C5_InsertSemantics ==
    [][\A i \in 0..MaxLen, b \in BOOLEAN :
         Insert(i, b) =>
            /\ status' = "ok"
            /\ ret' = ""
            /\ Contents' = SeqInsert(Contents, i, b)]_vars

\* C6: delete(i) with i < len returns Ok, and afterwards the stored sequence
\* is the previous one with position i removed.
C6_DeleteSemantics ==
    [][\A i \in 0..MaxLen :
         Delete(i) =>
            /\ status' = "ok"
            /\ ret' = ""
            /\ Contents' = SeqDelete(Contents, i)]_vars

\* C7: for both bit values b and every i <= len, rank(b, i) is the number of
\* b-valued bits at positions [0, i) of the stored sequence.
C7_RankCorrect ==
    status = "ok" =>
        \A b \in BOOLEAN, i \in 0..Len(Contents) :
            rank(Cur, b, i) = QR(FALSE, CountIn(Contents, b, i))

\* C8: for both bit values b and every n with at least n+1 b-bits stored,
\* select(b, n) is the position of the (n+1)-th b-bit.
C8_SelectCorrect ==
    status = "ok" =>
        \A b \in BOOLEAN, n \in 0..MaxLen :
            n < CountIn(Contents, b, Len(Contents)) =>
                select(Cur, b, n) = QR(FALSE, NthPos(Contents, b, n))

\* C9: whenever select(b, n) succeeds, rank(b, select(b, n)) = n and
\* access(select(b, n)) = b.
C9_SelectInverse ==
    status = "ok" =>
        \A b \in BOOLEAN, n \in 0..MaxLen :
            (n < CountIn(Contents, b, Len(Contents)) /\ ~select(Cur, b, n).p) =>
                /\ rank(Cur, b, select(Cur, b, n).v) = QR(FALSE, n)
                /\ access(Cur, select(Cur, b, n).v) = QR(FALSE, b)

\* C10: push(b) never fails, and afterwards the stored sequence is the
\* previous one followed by b.
C10_PushAppends ==
    [][\A b \in BOOLEAN :
         Push(b) => (status' = "ok" /\ Contents' = Append(Contents, b))]_vars

\* The links and the rank of every node, and the parent of every leaf.
Links(ns) ==
    [n \in 1..Len(ns) |-> <<ns[n].parent, ns[n].left, ns[n].right, ns[n].rank>>]

LeafParents(ls) == [l \in 1..Len(ls) |-> ls[l].parent]

\* C11: flip(i) with i < len completes and inverts exactly the bit at global
\* position i; the length, every other position, root, every parent and child
\* link and every rank field stay as they were.
C11_FlipFrame ==
    [][\A i \in 0..MaxLen :
         Flip(i) =>
            /\ status' = "ok"
            /\ Contents' = SeqFlip(Contents, i)
            /\ root' = root
            /\ Links(nodes') = Links(nodes)
            /\ LeafParents(leafs') = LeafParents(leafs)]_vars

\* flip(i) called twice in a row on the vector as it is now
FlipTwice(i) == flip(flip(Cur, i), i)

\* the nums and ones of every node
Aggregates(ns) == [n \in 1..Len(ns) |-> <<ns[n].nums, ns[n].ones>>]

\* C12: in every reachable state and for every i < len, flip(i) performed
\* twice completes and restores the stored sequence and the nums and ones of
\* every node to the values they had before the first flip.
C12_FlipTwice ==
    status = "ok" =>
        \A i \in 0..(Len(Contents) - 1) :
            /\ FlipTwice(i).st = "ok"
            /\ ContentsOf(FlipTwice(i)) = Contents
            /\ Aggregates(FlipTwice(i).nodes) = Aggregates(nodes)

\* C13: insert(i, b) with i > len, also on a new vector, returns the
\* OutOfBounds error and leaves root, nodes and leafs exactly as they were.
C13_InsertOutRejected ==
    [][\A i \in 0..(MaxLen + 1), b \in BOOLEAN :
         InsertOut(i, b) =>
            /\ status' = "ok"
            /\ ret' = "OutOfBounds"
            /\ root' = root
            /\ nodes' = nodes
            /\ leafs' = leafs]_vars

\* C14: delete(i) with i >= len, also on an empty vector, returns the
\* OutOfBounds error and leaves root, nodes and leafs exactly as they were.
C14_DeleteOutRejected ==
    [][\A i \in 0..(MaxLen + 1) :
         DeleteOut(i) =>
            /\ status' = "ok"
            /\ ret' = "OutOfBounds"
            /\ root' = root
            /\ nodes' = nodes
            /\ leafs' = leafs]_vars

\* C15: flip(i) with i >= len reports OutOfBounds and changes no bit of any
\* leaf.
C15_FlipOutRejected ==
    [][\A i \in 0..(MaxLen + 1) :
         FlipOut(i) =>
            /\ status' = "ok"
            /\ ret' = "OutOfBounds"
            /\ leafs' = leafs]_vars

\* C16: when fewer than n+1 b-bits are stored, select(b, n) neither aborts
\* nor returns a position of the stored sequence.
C16_SelectAbsent ==
    status = "ok" =>
        \A b \in BOOLEAN, n \in 0..MaxLen :
            CountIn(Contents, b, Len(Contents)) <= n =>
                /\ ~select(Cur, b, n).p
                /\ select(Cur, b, n).v \notin 0..(Len(Contents) - 1)

\* C17: in every reachable state ones() is the number of 1-bits stored in the
\* whole vector.
C17_OnesGlobal ==
    status = "ok" => ones(Cur) = CountIn(Contents, TRUE, Len(Contents))

\* C18: in every reachable state, the new vector and the states whose root has
\* no right child included, len() returns the number of bits stored.
C18_LenGlobal ==
    status = "ok" => len(Cur) = QR(FALSE, Len(Contents))

\* the leaves other than the sentinel at index 0
RealLeaves == 2..Len(leafs)

\* C19: in every state reached by push and by in-bounds insert, delete and
\* flip, every leaf but the sentinel has nums <= BITS and no bit set at a
\* position >= nums.
C19_LeafWellFormed ==
    \A l \in RealLeaves :
        /\ leafs[l].nums <= BITS
        /\ leafs[l].value \div (2 ^ leafs[l].nums) = 0

\* the child reference c of node p is empty, or names an arena entry whose
\* parent field is p
ChildOf(p, c) ==
    \/ c = None
    \/ c >= 0 /\ HasNode(Cur, c) /\ NodeAt(Cur, c).parent = p
    \/ c < 0 /\ HasLeaf(Cur, c) /\ LeafAt(Cur, c).parent = p

RECURSIVE NodePaths(_, _, _)
\* the node ids met on the paths from `child` downwards, once per path
NodePaths(s, child, fuel) ==
    IF child = None \/ child < 0 \/ fuel = 0 \/ ~HasNode(s, child) THEN <<>>
    ELSE <<child>> \o NodePaths(s, NodeAt(s, child).left, fuel - 1)
                   \o NodePaths(s, NodeAt(s, child).right, fuel - 1)

\* C21: in every reachable state exactly one node has no parent, root is that
\* node, and every node and every leaf but the sentinel is reached from root
\* by exactly one path.
C21_RootedTree ==
    LET ListsOnce(q, S) == Len(q) = Cardinality(S) /\ {q[k] : k \in 1..Len(q)} = S
    IN status = "ok" =>
        /\ {n \in 1..Len(nodes) : nodes[n].parent = None} = {root + 1}
        /\ ListsOnce(NodePaths(Cur, root, Len(nodes) + 1), 0..(Len(nodes) - 1))
        /\ ListsOnce(LeavesBelow(Cur, root, Len(nodes) + 1),
                     {-(l - 1) : l \in RealLeaves})

\* a rotation has made another node the root, four leaves hang under three or
\* more nodes, and all of them are reached from the root exactly once
C21_Witness ==
    LET ListsOnce(q, S) == Len(q) = Cardinality(S) /\ {q[k] : k \in 1..Len(q)} = S
    IN /\ status = "ok"
       /\ root # 0
       /\ Len(nodes) >= 3
       /\ Len(leafs) >= 5
       /\ nodes[root + 1].parent = None
       /\ ListsOnce(NodePaths(Cur, root, Len(nodes) + 1), 0..(Len(nodes) - 1))
       /\ ListsOnce(LeavesBelow(Cur, root, Len(nodes) + 1),
                    {-(l - 1) : l \in RealLeaves})

\* C22: in every reachable state with len > 0, rank(1, len) and rank(0, len)
\* both return and add up to len.
C22_RankPartition ==
    status = "ok" /\ Len(Contents) > 0 =>
        /\ ~rank(Cur, TRUE, Len(Contents)).p
        /\ ~rank(Cur, FALSE, Len(Contents)).p
        /\ rank(Cur, TRUE, Len(Contents)).v + rank(Cur, FALSE, Len(Contents)).v
               = Len(Contents)

RECURSIVE Height(_, _, _)
\* height of the subtree under `child`: 0 for a leaf, one level lower for an
\* absent child
Height(s, child, fuel) ==
    IF child = None \/ fuel = 0 THEN -1
    ELSE IF child < 0 \/ ~HasNode(s, child) THEN 0
    ELSE LET hl == Height(s, NodeAt(s, child).left, fuel - 1)
             hr == Height(s, NodeAt(s, child).right, fuel - 1)
         IN 1 + (IF hl >= hr THEN hl ELSE hr)

\* C23: after n >= 1 pushes of the same bit onto a new vector every leaf but
\* the rightmost holds BITS bits; after 6 * BITS pushes the tree has five
\* nodes, six full leaves and height 3, and the root has nums = 2 * BITS,
\* ones = 2 * BITS for true bits and 0 for false bits, and rank +1.
C23_PushGrowth ==
    LET q == LeavesBelow(Cur, root, Len(nodes) + 1)
    IN /\ status = "ok"
       /\ \A k \in 1..(Len(q) - 1) : LeafAt(Cur, q[k]).nums = BITS
       /\ Len(ref) = PushRun =>
             /\ Len(nodes) = 5
             /\ Len(leafs) = 7
             /\ Len(q) = 6
             /\ \A k \in 1..6 : LeafAt(Cur, q[k]).nums = BITS
             /\ Height(Cur, root, Len(nodes) + 1) = 3
             /\ NodeAt(Cur, root).nums = 2 * BITS
             /\ NodeAt(Cur, root).ones = (IF Head(ref) THEN 2 * BITS ELSE 0)
             /\ NodeAt(Cur, root).rank = 1

\* 6 * BITS equal bits have been pushed and the tree has six leaves
C23_Witness ==
    /\ status = "ok"
    /\ Len(ref) = PushRun
    /\ Len(LeavesBelow(Cur, root, Len(nodes) + 1)) = 6

\* C24: BITS + 1 inserts of true, all at position 0 (resp. all at the current
\* end), into a new vector all complete and yield one node, the root, with
\* rank 0 over two all-ones leaves of HALF + 1 and HALF bits (resp. HALF and
\* HALF + 1) with nums = ones = the left leaf's count; after exactly BITS of
\* them there is one node with a single full right leaf, nums = 0 and rank +1.
C24_FirstSplit ==
    [][LET LeafOf(ls, c) == ls[Abs(c) + 1]
        SplitShape(ns, ls, rt, nl, nr) ==
            /\ rt = 0
            /\ Len(ns) = 1
            /\ Len(ls) = 3
            /\ ns[1].rank = 0
            /\ ns[1].left \in {-1, -2}
            /\ ns[1].right \in {-1, -2} \ {ns[1].left}
            /\ LeafOf(ls, ns[1].left) = Leaf_create(0, 2 ^ nl - 1, nl)
            /\ LeafOf(ls, ns[1].right) = Leaf_create(0, 2 ^ nr - 1, nr)
            /\ ns[1].nums = nl
            /\ ns[1].ones = nl
        FullShape(ns, ls, rt) ==
            /\ rt = 0
            /\ Len(ns) = 1
            /\ Len(ls) = 2
            /\ ns[1].rank = 1
            /\ ns[1].left = None
            /\ ns[1].right = -1
            /\ ns[1].nums = 0
            /\ ls[2] = Leaf_create(0, MAXV, BITS)
        AllAt(q, front) == \A k \in 1..Len(q) : q[k] = <<front, TRUE>>
    IN \A front \in BOOLEAN :
            InsertEnd(front, TRUE) /\ AllAt(ref, front) =>
               /\ status' = "ok"
               /\ Len(ref') = BITS => FullShape(nodes', leafs', root')
               /\ Len(ref') = BITS + 1 =>
                     SplitShape(nodes', leafs', root',
                                IF front THEN HALF + 1 ELSE HALF,
                                IF front THEN HALF ELSE HALF + 1)
      ]_vars

\* C25: from 2 * BITS pushed true bits, each delete of the positions BITS - 1
\* down to 0 completes without an error, the aggregates, the rank bound and
\* the leaf well-formedness hold after each one, and after the last one the
\* tree is a single leaf holding BITS one-bits.
C25_Collapse ==
    calls <= BITS /\ (\A k \in 1..Len(ref) : ref[k]) =>
        /\ status = "ok"
        /\ ret = ""
        /\ Len(Contents) = BITS + calls
        /\ C1_Aggregates
        /\ C2_RankInvariant
        /\ C19_LeafWellFormed
        /\ calls = 0 =>
              /\ Len(LeavesBelow(Cur, root, Len(nodes) + 1)) = 1
              /\ LeafBits(LeafAt(Cur, LeavesBelow(Cur, root, Len(nodes) + 1)[1]))
                     = [k \in 1..BITS |-> TRUE]

\* C26: Leaf insert contract.  For a leaf with nums < BITS and i <= nums,
\* insert(i, b) returns Ok, keeps the positions below i, writes b at i, moves
\* every old position j in [i, nums) to j + 1 and increments nums; with
\* nums = BITS it returns the Full error and with i > nums the OutOfBounds
\* error, and the leaf is unchanged in both error cases.
C26_LeafInsert ==
    [][\A i \in 0..BITS, b \in BOOLEAN : LeafInsert(i, b) =>
        /\ status' = "ok"
        /\ IF leafs[1].nums = BITS
           THEN ret' = "Full" /\ leafs'[1] = leafs[1]
           ELSE IF i > leafs[1].nums
           THEN ret' = "OutOfBounds" /\ leafs'[1] = leafs[1]
           ELSE /\ ret' = ""
                /\ leafs'[1].nums = leafs[1].nums + 1
                /\ LeafBits(leafs'[1]) = SeqInsert(LeafBits(leafs[1]), i, b)]_vars

\* C27: Leaf delete contract.  For a leaf with nums > 0 and i < nums,
\* delete(i) returns Ok, keeps the positions below i, moves every old position
\* j in (i, nums) to j - 1, decrements nums and leaves no bit set at a position
\* at or above the new nums; with nums = 0 it returns the Empty error and with
\* i >= nums the OutOfBounds error, and the leaf is unchanged in both cases.
C27_LeafDelete ==
    [][\A i \in 0..BITS : LeafDelete(i) =>
        /\ status' = "ok"
        /\ IF leafs[1].nums = 0
           THEN ret' = "Empty" /\ leafs'[1] = leafs[1]
           ELSE IF i >= leafs[1].nums
           THEN ret' = "OutOfBounds" /\ leafs'[1] = leafs[1]
           ELSE /\ ret' = ""
                /\ leafs'[1].nums = leafs[1].nums - 1
                /\ LeafBits(leafs'[1]) = SeqDelete(LeafBits(leafs[1]), i)
                /\ leafs'[1].value < 2^(leafs'[1].nums)]_vars

\* C28: word-level select paths agree.  For every word, bit b and n the scan
\* and the PDEP+TZCNT path of select end the same way (both panic, or both
\* return the same number), for u64 and for Leaf, and whenever the word holds
\* at least n + 1 b-bits both return the 0-based position, counted from bit 0,
\* of the (n+1)-th b-bit.
C28_SelectPaths ==
    [][\A b \in BOOLEAN, n \in 0..BITS :
        (LeafSelect(b, n) \/ WordSelect(b, n)) =>
            LET l == leafs[1]
                word == [k \in 1..BITS |-> BitOf(l.value, k - 1) = 1]
                Same(x, y) == x.p = y.p /\ (~x.p => x.v = y.v)
                At(x, pos) == ~x.p /\ x.v = pos
            IN /\ Same(select_internal(l.value, b, n, TRUE),
                       select_internal(l.value, b, n, FALSE))
               /\ Same(select_pdep(l, b, n), select_scan(l, b, n))
               /\ CountIn(word, b, BITS) >= n + 1 =>
                    /\ At(select_internal(l.value, b, n, TRUE), NthPos(word, b, n))
                    /\ At(select_internal(l.value, b, n, FALSE), NthPos(word, b, n))
                    /\ At(select_pdep(l, b, n), NthPos(word, b, n))
                    /\ At(select_scan(l, b, n), NthPos(word, b, n))]_vars

C30_DoubleRotation ==
    [][\A i \in Positions :
        (Insert(i, TRUE) /\ Len(insert(Cur, i, TRUE).dbl) = 4) =>
            \A x \in {insert(Cur, i, TRUE).dbl[1]}, r \in {insert(Cur, i, TRUE).dbl[2]},
               z \in {insert(Cur, i, TRUE).dbl[3]}, y \in {insert(Cur, i, TRUE).dbl[4]} :
                Abs(r) = 2 =>
                    LET Old(id) == Abs(id) < Len(leafs)
                    IN /\ status' = "ok"
                       /\ y # None /\ y >= 0
                       /\ nodes'[y + 1].parent = nodes[x + 1].parent
                       /\ (root = x => root' = y)
                       /\ IF r > 0
                          THEN nodes'[y + 1].left = x /\ nodes'[y + 1].right = z
                          ELSE nodes'[y + 1].left = z /\ nodes'[y + 1].right = x
                       /\ SelectSeq(LeavesBelow(Cur, root, Len(nodes) + 1)', Old)
                            = LeavesBelow(Cur, root, Len(nodes) + 1)
                       /\ \A n \in {x, y, z} :
                            /\ nodes'[n + 1].nums = LeftUsed(n)'
                            /\ nodes'[n + 1].ones = LeftOnes(n)'
                            /\ Abs(nodes'[n + 1].rank) <= 1]_vars

\* C31: single left rotation.  For every rotate_left(z, x) that a push enters
\* with x.rank = +2, z the right child of x with rank +1, both children of z
\* present and nums/ones of every node equal to the used bits / 1-bits of its
\* left subtree: z takes the place of x (the former parent of x refers to z,
\* or z is the root), x is the left child of z, the former left subtree of z
\* is the right child of x with x as its parent, both ranks are 0, z.nums and
\* z.ones have grown by x.nums and x.ones, every other node and every leaf
\* holds what it held, the leaves are in the same order and nums/ones of
\* every node are again those of its left subtree.
C31_RotateLeft ==
    [][\A b \in BOOLEAN : PushSame(b) =>
        \A log \in {push(Cur, b).rots} : \A k \in 1..Len(log) :
            \A z \in {log[k][2]}, x \in {log[k][3]}, pre \in {log[k][4]} :
            LET fuel == Len(pre.nodes) + 1
                Bits(t, n) == InOrder(t, NodeAt(t, n).left, fuel)
                I1(t) == \A n \in NodesBelow(t, t.root, fuel) :
                            /\ NodeAt(t, n).nums = Len(Bits(t, n))
                            /\ NodeAt(t, n).ones = CountIn(Bits(t, n), TRUE, Len(Bits(t, n)))
                p == NodeAt(pre, x).parent
                c == NodeAt(pre, z).left
            IN (/\ log[k][1] = "left"
                /\ NodeAt(pre, x).rank = 2 /\ NodeAt(pre, x).right = z
                /\ NodeAt(pre, z).rank = 1
                /\ c # None /\ NodeAt(pre, z).right # None
                /\ I1(pre)) =>
               \A post \in {rotate_left(pre, z, x)} :
                /\ post.st = "ok"
                /\ NodeAt(post, z).parent = p
                /\ IF p = None THEN post.root = z
                   ELSE /\ post.root = pre.root
                        /\ NodeAt(post, p).left = (IF NodeAt(pre, p).left = x THEN z
                                                   ELSE NodeAt(pre, p).left)
                        /\ NodeAt(post, p).right = (IF NodeAt(pre, p).right = x THEN z
                                                    ELSE NodeAt(pre, p).right)
                /\ NodeAt(post, z).left = x /\ NodeAt(post, x).parent = z
                /\ NodeAt(post, x).right = c
                /\ IF c >= 0 THEN NodeAt(post, c).parent = x
                   ELSE LeafAt(post, c).parent = x
                /\ NodeAt(post, x).left = NodeAt(pre, x).left
                /\ NodeAt(post, z).right = NodeAt(pre, z).right
                /\ NodeAt(post, z).rank = 0 /\ NodeAt(post, x).rank = 0
                /\ NodeAt(post, z).nums = NodeAt(pre, z).nums + NodeAt(pre, x).nums
                /\ NodeAt(post, z).ones = NodeAt(pre, z).ones + NodeAt(pre, x).ones
                /\ NodeAt(post, x).nums = NodeAt(pre, x).nums
                /\ NodeAt(post, x).ones = NodeAt(pre, x).ones
                /\ \A n \in 0..(Len(pre.nodes) - 1) :
                        n \notin {x, z, p, c} => NodeAt(post, n) = NodeAt(pre, n)
                /\ Len(post.nodes) = Len(pre.nodes) /\ Len(post.leafs) = Len(pre.leafs)
                /\ \A l \in 1..Len(pre.leafs) :
                        /\ post.leafs[l].value = pre.leafs[l].value
                        /\ post.leafs[l].nums = pre.leafs[l].nums
                /\ LeavesBelow(post, post.root, fuel) = LeavesBelow(pre, pre.root, fuel)
                /\ I1(post)]_vars

\* the push after 3 * BITS pushes has rotated left: node 1 is the root and
\* node 0 is its left child, both with rank 0
C31_Witness ==
    /\ status = "ok"
    /\ Len(ref) = 3 * BITS + 1
    /\ root = 1
    /\ NodeAt(Cur, 1).left = 0 /\ NodeAt(Cur, 0).parent = 1
    /\ NodeAt(Cur, 1).rank = 0 /\ NodeAt(Cur, 0).rank = 0

\* C32: single right rotation.  Take every tree in which an insert enters
\* rotate_right(z, x), as it is and with nums/ones of every node set to the
\* used bits / 1-bits of its left subtree (an insert has already counted its
\* bit on the way down).  If x.rank = -2, z is the left child of x with rank
\* -1 and nums/ones of every node are those of its left subtree, then z takes
\* the place of x (the former parent of x refers to z, or z is the root), x is
\* the right child of z, the former right subtree of z is the left child of x
\* with x as its parent, both ranks are 0, x.nums and x.ones have shrunk by
\* z.nums and z.ones, the leaves are in the same order and nums/ones of every
\* node are again those of its left subtree.
C32_RotateRight ==
    [][Insert(1, TRUE) =>
        \A log \in {insert(Cur, 1, TRUE).rots} : \A k \in 1..Len(log) :
            \A z \in {log[k][2]}, x \in {log[k][3]},
               pre \in {log[k][4],
                        LET t == log[k][4]
                            q(n) == InOrder(t, t.nodes[n].left, Len(t.nodes) + 1)
                        IN [t EXCEPT !.nodes = [n \in DOMAIN t.nodes |->
                                [t.nodes[n] EXCEPT !.nums = Len(q(n)),
                                                   !.ones = CountIn(q(n), TRUE, Len(q(n)))]]]} :
            LET fuel == Len(pre.nodes) + 1
                Bits(t, n) == InOrder(t, NodeAt(t, n).left, fuel)
                I1(t) == \A n \in NodesBelow(t, t.root, fuel) :
                            /\ NodeAt(t, n).nums = Len(Bits(t, n))
                            /\ NodeAt(t, n).ones = CountIn(Bits(t, n), TRUE, Len(Bits(t, n)))
                p == NodeAt(pre, x).parent
                c == NodeAt(pre, z).right
            IN (/\ log[k][1] = "right"
                /\ NodeAt(pre, x).rank = -2 /\ NodeAt(pre, x).left = z
                /\ NodeAt(pre, z).rank = -1
                /\ I1(pre)) =>
               \A post \in {rotate_right(pre, z, x)} :
                /\ post.st = "ok"
                /\ NodeAt(post, z).parent = p
                /\ IF p = None THEN post.root = z
                   ELSE /\ post.root = pre.root
                        /\ NodeAt(post, p).left = (IF NodeAt(pre, p).left = x THEN z
                                                   ELSE NodeAt(pre, p).left)
                        /\ NodeAt(post, p).right = (IF NodeAt(pre, p).right = x THEN z
                                                    ELSE NodeAt(pre, p).right)
                /\ NodeAt(post, z).right = x /\ NodeAt(post, x).parent = z
                /\ c # None /\ NodeAt(post, x).left = c
                /\ IF c >= 0 THEN NodeAt(post, c).parent = x
                   ELSE LeafAt(post, c).parent = x
                /\ NodeAt(post, z).rank = 0 /\ NodeAt(post, x).rank = 0
                /\ NodeAt(post, x).nums = NodeAt(pre, x).nums - NodeAt(pre, z).nums
                /\ NodeAt(post, x).ones = NodeAt(pre, x).ones - NodeAt(pre, z).ones
                /\ LeavesBelow(post, post.root, fuel) = LeavesBelow(pre, pre.root, fuel)
                /\ I1(post)]_vars

\* an insert has rotated right at the root: the old root, node 0, is the
\* right child of the new root, both with rank 0
C32_Witness ==
    /\ status = "ok"
    /\ root # 0
    /\ NodeAt(Cur, root).right = 0 /\ NodeAt(Cur, 0).parent = root
    /\ NodeAt(Cur, root).rank = 0 /\ NodeAt(Cur, 0).rank = 0

\* C38: the rotation preconditions always hold.  Whenever a call enters
\* rotate_left(z, x), x.rank = +2 and z.rank = +1 in the tree at that moment,
\* and whenever it enters rotate_right(z, x), x.rank = -2 and z.rank = -1.
C38_RotationEntry ==
    [][\A i \in Positions : Insert(i, TRUE) =>
        \A log \in {insert(Cur, i, TRUE).rots} : \A k \in 1..Len(log) :
            IF log[k][1] = "left"
            THEN /\ NodeAt(log[k][4], log[k][3]).rank = 2
                 /\ NodeAt(log[k][4], log[k][2]).rank = 1
            ELSE /\ NodeAt(log[k][4], log[k][3]).rank = -2
                 /\ NodeAt(log[k][4], log[k][2]).rank = -1]_vars

\* C33: swap-remove fix-up.  In every state a call returned to, for every leaf
\* l of the tree and every node n of the tree other than the root,
\* swap_remove_leaf(l) and swap_remove_node(n) return, the arena they shrink
\* is one entry shorter, the entry that was moved out of the last slot is the
\* child in exactly one child slot, a slot of its own parent, under its new
\* index (or root names it when it has no parent), and no child slot holds the
\* index of the vacated last slot nor, when the removed entry was the last
\* one, the index of the removed entry.
C33_SwapRemove ==
    status = "ok" =>
        LET slots(t, c) ==
                {sl \in (0..(Len(t.nodes) - 1)) \X {"left", "right"} :
                    t.nodes[sl[1] + 1][sl[2]] = c}
            owners(t, c) == {sl[1] : sl \in slots(t, c)}
        IN
        /\ \A lv \in {LeavesBelow(Cur, root, Len(nodes) + 1)} :
             \A j \in 1..Len(lv) : \A k \in {-lv[j]} :
               \A post \in {swap_remove_leaf(Cur, -k)} :
                 /\ post.st = "ok"
                 /\ Len(post.leafs) = Len(leafs) - 1
                 /\ Len(post.nodes) = Len(nodes)
                 /\ slots(post, -(Len(leafs) - 1)) = {}
                 /\ IF k = Len(leafs) - 1 THEN TRUE
                    ELSE /\ Cardinality(slots(post, -k)) = 1
                         /\ owners(post, -k) = {post.leafs[k + 1].parent}
                         /\ post.leafs[k + 1] = leafs[Len(leafs)]
        /\ \A n \in Reachable \ {root} :
             \A post \in {swap_remove_node(Cur, n)} :
               /\ post.st = "ok"
               /\ Len(post.nodes) = Len(nodes) - 1
               /\ Len(post.leafs) = Len(leafs)
               /\ slots(post, Len(nodes) - 1) = {}
               /\ IF n = Len(nodes) - 1 THEN TRUE
                  ELSE IF post.nodes[n + 1].parent = None
                       THEN post.root = n /\ slots(post, n) = {}
                  ELSE /\ Cardinality(slots(post, n)) = 1
                       /\ owners(post, n) = {post.nodes[n + 1].parent}

\* C34: closest-neighbour search.  In every state a call returned to whose
\* tree has at least two leaves, closest_neighbor_leaf(L) returns, for every
\* leaf L of the tree, the id of a leaf (a negative id), which is the leaf
\* just before L in bit order, tagged Left, or the leaf just after L, tagged
\* Right.
C34_ClosestNeighbor ==
    status = "ok" =>
        \A lv \in {LeavesBelow(Cur, root, Len(nodes) + 1)} :
            Len(lv) >= 2 =>
                \A j \in 1..Len(lv) :
                    \A nb \in {closest_neighbor_leaf(Cur, lv[j])} :
                        /\ nb.k \in {"L", "R"}
                        /\ nb.v < 0
                        /\ \/ j > 1 /\ nb.v = lv[j - 1] /\ nb.k = "L"
                           \/ j < Len(lv) /\ nb.v = lv[j + 1] /\ nb.k = "R"

\* C35: steal on underflow.  In every state a call returned to, for every
\* leaf L of the tree and every position idx of L: when delete_leaf(L, idx)
\* leaves L with at most BITS / 4 bits and the neighbour that
\* closest_neighbor_leaf finds is a leaf with more than 3 * BITS / 4 bits,
\* the call returns with the same number of leaves, L and the neighbour hold
\* HALF bits each, and the bits of the two leaves, read in tree order, are
\* the bits they held after the bit was deleted: a neighbour in front of L
\* gave its last bits to the front of L, a neighbour behind L gave its first
\* bits to the end of L.
C35_Steal ==
    status = "ok" =>
        \A lv \in {LeavesBelow(Cur, root, Len(nodes) + 1)} :
            \A j \in 1..Len(lv) : \A idx \in 0..(LeafAt(Cur, lv[j]).nums - 1) :
                \A del \in {Leaf_delete(LeafAt(Cur, lv[j]), idx)} :
                \A nb \in {closest_neighbor_leaf(Cur, lv[j])} :
                    ( /\ del.err = ""
                      /\ ~del.p
                      /\ del.l.nums <= BITS \div 4
                      /\ nb.k \in {"L", "R"}
                      /\ nb.v < 0
                      /\ LeafAt(Cur, nb.v).nums > (3 * BITS) \div 4 ) =>
                    \A post \in {delete_leaf(Cur, lv[j], idx)} :
                        /\ post.st = "ok"
                        /\ Len(post.leafs) = Len(leafs)
                        /\ LeavesBelow(post, post.root, Len(post.nodes) + 1) = lv
                        /\ LeafAt(post, lv[j]).nums = HALF
                        /\ LeafAt(post, nb.v).nums = HALF
                        /\ IF j > 1 /\ lv[j - 1] = nb.v
                           THEN LeafBits(LeafAt(post, nb.v)) \o LeafBits(LeafAt(post, lv[j]))
                                = LeafBits(LeafAt(Cur, nb.v)) \o LeafBits(del.l)
                           ELSE LeafBits(LeafAt(post, lv[j])) \o LeafBits(LeafAt(post, nb.v))
                                = LeafBits(del.l) \o LeafBits(LeafAt(Cur, nb.v))

\* C36: sentinel convention.  In every state a call returned to, for every
\* index i below the length, neither the descent of access(i) nor the descent
\* that insert, delete and flip share (apply_node) ends at leaf slot 0: a
\* child id 0 on the way is followed as node 0.
C36_Sentinel ==
    status = "ok" =>
        \A i \in 0..(Len(Contents) - 1) :
            /\ get_node_leaf(Cur, root, i) # 0
            /\ \A at \in {apply_node(Cur, root, "leaf_id", i)} :
                   at.st = "ok" => at.ret.leaf # 0

\* C37: leaf merge primitives.  For a leaf whose container holds nothing
\* above its used bits and another leaf of n bits with used + n <= BITS,
\* extend_from and prepend return, used becomes the sum, extend_from leaves
\* the bits of the leaf where they were and puts the other leaf's bits behind
\* them, and prepend puts the other leaf's bits first and the bits of the
\* leaf behind them.
C37_LeafMerge ==
    [][\A front \in BOOLEAN, n \in 0..BITS : \A v \in 0..(2^n - 1) :
           (LeafExtend(front, n, v) /\ leafs[1].value < 2^(leafs[1].nums)) =>
               /\ status' = "ok"
               /\ leafs'[1].nums = leafs[1].nums + n
               /\ LeafBits(leafs'[1]) =
                      IF front
                      THEN LeafBits(Leaf_create(0, v, n)) \o LeafBits(leafs[1])
                      ELSE LeafBits(leafs[1]) \o LeafBits(Leaf_create(0, v, n))]_vars

\* C39: termination of the neighbour search.  No call of delete fails to
\* return, and in every state a call returned to closest_neighbor_leaf(L)
\* for every leaf L of the tree and closest_neighbor_child(n) for every node
\* n of the tree come to an end: at a leaf, or at the root with no neighbour
\* found, also where the child that descend_leftmost or descend_rightmost
\* meets is a node.
C39_SearchTerminates ==
    /\ status # "hang"
    /\ status = "ok" =>
           /\ \A lv \in {LeavesBelow(Cur, root, Len(nodes) + 1)} :
                  \A j \in 1..Len(lv) :
                      closest_neighbor_leaf(Cur, lv[j]).k \in {"L", "R", "N"}
           /\ \A n \in Reachable :
                  closest_neighbor_child(Cur, n).k \in {"L", "R", "N"}

====
